---- MODULE Spec2Model ----
(***************************************************************************)
(* Discussion Resolution Engine of AutoDemo: the EnhancedAICodeResolver    *)
(* run loop (src/enhanced-resolver.js) together with the single-slot       *)
(* UndoManager (src/undo-manager.js).                                      *)
(*                                                                         *)
(* Text is modelled at character level: a string is a sequence of          *)
(* one-character strings, "\n" being the line terminator, so that          *)
(* split('\n') and join('\n') are computed and not assumed.                *)
(***************************************************************************)
EXTENDS Integers, Sequences, FiniteSets, TLC

(***************************************************************************)
(* Bounds of the model.                                                    *)
(***************************************************************************)
\* most discussions in a ledger of the coordinator specification
MaxDiscussions == 2
\* most lines of the target file of the coordinator specification
MaxFileLines == 3
\* largest declared line number of a discussion
MaxLine == 2
\* longest file content (characters) of the splice specification
MaxContentLen == 4
\* most backups taken before the backup directory is cleared
MaxBackups == 6

NL == "\n"

NoValue == "undefined"

TargetFile == "a.js"
OtherFile == "app.js"
FileNames == {TargetFile, OtherFile}

(***************************************************************************)
(* Array and string primitives of the JavaScript runtime.                  *)
(***************************************************************************)
MinOf(a, b) == IF a <= b THEN a ELSE b

MaxOf(a, b) == IF a >= b THEN a ELSE b

\* Math.min(...arr)
ArrMin(arr) == CHOOSE m \in {arr[k] : k \in 1..Len(arr)} :
                   \A k \in 1..Len(arr) : m <= arr[k]

\* Math.max(...arr)
ArrMax(arr) == CHOOSE m \in {arr[k] : k \in 1..Len(arr)} :
                   \A k \in 1..Len(arr) : m >= arr[k]

\* Array.prototype.slice(from, to) with 0-based half-open indices; a negative
\* index counts from the end and indices are clamped to [0, length].
Slice(arr, from, to) ==
    LET n == Len(arr)
        f == IF from < 0 THEN MaxOf(n + from, 0) ELSE MinOf(from, n)
        t == IF to < 0 THEN MaxOf(n + to, 0) ELSE MinOf(to, n)
    IN  IF f >= t THEN << >> ELSE SubSeq(arr, f + 1, t)

\* Array.prototype.slice(from)
SliceFrom(arr, from) == Slice(arr, from, Len(arr))

\* String.prototype.split('\n'): always at least one (possibly empty) line
Split(str) ==
    LET RECURSIVE scan(_, _, _)
        scan(k, cur, acc) ==
            IF k > Len(str) THEN Append(acc, cur)
            ELSE IF str[k] = NL THEN scan(k + 1, << >>, Append(acc, cur))
            ELSE scan(k + 1, Append(cur, str[k]), acc)
    IN  scan(1, << >>, << >>)

\* Array.prototype.join('\n')
Join(lines) ==
    LET RECURSIVE glue(_)
        glue(k) == IF k > Len(lines) THEN << >>
                   ELSE <<NL>> \o lines[k] \o glue(k + 1)
    IN  IF lines = << >> THEN << >> ELSE lines[1] \o glue(2)

(***************************************************************************)
(* Pure functions of the resolver.                                         *)
(***************************************************************************)
\* getLocalCodeContext: the [startLine, endLine] pair handed to extraction
ContextLineRange(lines) ==
    IF Len(lines) = 1 THEN <<lines[1], lines[1] + 1>>
    ELSE <<ArrMin(lines), ArrMax(lines) + 1>>

\* processDiscussion: the [startLine, endLine] pair handed to applyFix
\* (as startLine - 1, endLine - 1)
FixLineRange(lines) ==
    IF Len(lines) = 1 THEN <<lines[1], lines[1] + 1>>
    ELSE <<ArrMin(lines), ArrMax(lines) + 1>>

\* extractCodeLines with the bounds test off by one
extractCodeLines_lateBoundsTest(content, startLine, endLine) ==
    LET lines == Split(content)
        start == MaxOf(0, startLine - 1)
        end   == MinOf(Len(lines), endLine)
    IN  IF start > Len(lines)
        THEN [ok |-> FALSE,
              error |-> [kind |-> "StartLineBeyondFileLength",
                         line |-> startLine, length |-> Len(lines)]]
        ELSE [ok |-> TRUE,
              extractedCode |-> Join(Slice(lines, start, end)),
              startIndex |-> start,
              endIndex |-> end,
              lineCount |-> end - start]

extractCodeLines(content, startLine, endLine) ==
    LET lines == Split(content)
        start == MaxOf(0, startLine - 1)
        end   == MinOf(Len(lines), endLine)
    IN  IF start >= Len(lines)
        THEN [ok |-> FALSE,
              error |-> [kind |-> "StartLineBeyondFileLength",
                         line |-> startLine, length |-> Len(lines)]]
        ELSE [ok |-> TRUE,
              extractedCode |-> Join(Slice(lines, start, end)),
              startIndex |-> start,
              endIndex |-> end,
              lineCount |-> end - start]

\* applyFix keeping the tail from one line too far
applyFix_dropsNextLine(originalContent, fix, startIndex, endIndex) ==
    LET lines == Split(originalContent)
        suggestedLines == Split(fix)
    IN  Join(Slice(lines, 0, startIndex) \o suggestedLines
             \o SliceFrom(lines, endIndex + 1))

applyFix(originalContent, fix, startIndex, endIndex) ==
    LET lines == Split(originalContent)
        suggestedLines == Split(fix)
    IN  Join(Slice(lines, 0, startIndex) \o suggestedLines
             \o SliceFrom(lines, endIndex))

(***************************************************************************)
(* State.                                                                  *)
(***************************************************************************)
VARIABLES
    ledgerFile,             \* discussions.json on disk
    files,                  \* the source files on disk, by path
    backupFiles,            \* .coderev-backups, in creation order
    backupMtimes,           \* stat().mtime of each backup file
    undoFile,               \* undo.json on disk (the single undo record)
    pc,                     \* position of run() / processDiscussion()
    discussions,            \* const discussions of run()
    idx,                    \* 1-based loop position (i + 1)
    codeContext,            \* const codeContext of processDiscussion()
    suggestedFix,           \* const suggestedFix of processDiscussion()
    fileContent,            \* const fileContent of processDiscussion()
    processedCount,
    appliedCount,
    skippedCount,
    resolvedDiscussionIds,
    outcome,                \* per discussion, the outcome line logged for it
    lastError,              \* the error logged by the last step, if any
    written,                \* the writeFile calls on source files so far
    ledgerWrites,           \* number of writes of discussions.json so far
    summary,                \* what displaySummary() printed, if it ran
    browser                 \* the page of the web UI and the callbacks owed to it

vars == <<ledgerFile, files, backupFiles, backupMtimes, undoFile, pc,
          discussions, idx, codeContext, suggestedFix, fileContent, processedCount,
          appliedCount, skippedCount, resolvedDiscussionIds, outcome,
          lastError, written, ledgerWrites, summary, browser>>

\* number of backup files cleanupOldBackups keeps
KeepBackups == 5

Absent == [exists |-> FALSE, content |-> << >>]

Present(content) == [exists |-> TRUE, content |-> content]

NoUndo == [present |-> FALSE, filePath |-> NoValue, backupFilePath |-> 0,
           discussionId |-> 0, backupExists |-> FALSE, undoneAt |-> NoValue]

\* the record createBackup writes to undo.json
undoData(filePath, backupFilePath, discussionId) ==
    [present |-> TRUE, filePath |-> filePath,
     backupFilePath |-> backupFilePath, discussionId |-> discussionId,
     backupExists |-> TRUE, undoneAt |-> NoValue]

NoContext == [source |-> NoValue, codeContext |-> << >>, lineNumber |-> 0]

NoError == [kind |-> "none", line |-> 0, length |-> 0]

Err(kind) == [kind |-> kind, line |-> 0, length |-> 0]

NoSummary == [shown |-> FALSE, processed |-> 0, applied |-> 0, skipped |-> 0]

\* the page as the constructor of AICodeResolverUI leaves it: the welcome
\* screen, no callback pending
NoPage == [view |-> "welcome", loading |-> FALSE, disabled |-> FALSE,
           timers |-> 0, suggesting |-> << >>, applying |-> 0,
           displayed |-> << >>, decided |-> << >>, unseen |-> {}]

(***************************************************************************)
(* Inputs.                                                                 *)
(***************************************************************************)
\* ids are caller-assigned and unique (spec 3, Discussion); their values are
\* only ever compared for equality
DiscussionIds == <<11, 12, 13, 14, 15>>

FixtureLines == <<"L1", "L2", "L3", "L4", "L5">>

\* "L1\nL2\n...Ln"
FixtureContent(n) == Join([k \in 1..n |-> <<FixtureLines[k]>>])

\* what the suggestion generator may answer (trimmed text)
Suggestions == { <<"L2-fixed">>, <<"F", NL, "G">>, << >> }

\* what the remote review system may yield as a context
RemoteContexts == { <<"r">> }

LineNumbers == 1..MaxLine

SingleLines == { <<l>> : l \in LineNumbers }

\* every lines array of one or two 1-based line numbers
AllLineArrays == SingleLines \cup { <<a, b>> : a, b \in LineNumbers }

\* one line, or a range given last line first
SomeLineArrays ==
    { la \in AllLineArrays : Len(la) = 1 \/ la[1] > la[2] }

LocalDiscussion(id, lines) ==
    [id |-> id, file |-> TargetFile, lines |-> lines, remote |-> FALSE]

\* a discussion carrying source.owner / source.repo / source.pr
RemoteDiscussion(id) ==
    [id |-> id, file |-> TargetFile, lines |-> <<1>>, remote |-> TRUE]

DiscussionsAt(k, lineArrays) ==
    { LocalDiscussion(DiscussionIds[k], la) : la \in lineArrays }
        \cup { RemoteDiscussion(DiscussionIds[k]) }

\* the ledgers of n entries, entry k carrying the k-th id
LedgersOfLen(n, lineArrays) ==
    { l \in [1..n -> UNION { DiscussionsAt(k, lineArrays) : k \in 1..n }] :
          \A k \in 1..n : l[k].id = DiscussionIds[k] }

ValidLedger(entries) == [valid |-> TRUE, entries |-> entries]

\* a discussions.json that parseDiscussions rejects
InvalidLedger == [valid |-> FALSE, entries |-> << >>]

\* the strings over {"x", "\n"} of at most n characters
RECURSIVE TextsUpTo(_)
TextsUpTo(n) ==
    IF n = 0 THEN { << >> }
    ELSE LET shorter == TextsUpTo(n - 1)
         IN  shorter \cup { Append(t, c) : t \in shorter, c \in {"x", NL} }

(***************************************************************************)
(* Initial states: a fresh resolver object and the files found on disk.    *)
(***************************************************************************)
FreshResolver ==
    /\ pc = "load"
    /\ discussions = << >>
    /\ idx = 0
    /\ codeContext = NoContext
    /\ suggestedFix = << >>
    /\ fileContent = << >>
    /\ processedCount = 0
    /\ appliedCount = 0
    /\ skippedCount = 0
    /\ resolvedDiscussionIds = << >>
    /\ outcome = << >>
    /\ lastError = NoError
    /\ written = {}
    /\ ledgerWrites = 0
    /\ summary = NoSummary
    /\ browser = NoPage
    /\ backupFiles = << >>
    /\ backupMtimes = << >>
    /\ undoFile = NoUndo

\* the coordinator specification: ledgers of up to MaxDiscussions entries over
\* a target file of up to MaxFileLines distinct lines, or no target file
Init ==
    /\ FreshResolver
    /\ ledgerFile \in { InvalidLedger } \cup
           { ValidLedger(l) : l \in UNION { LedgersOfLen(n, SomeLineArrays) :
                                              n \in 0..MaxDiscussions } }
    /\ \E target \in { Absent } \cup
                     { Present(FixtureContent(n)) : n \in 1..MaxFileLines } :
           files = [f \in FileNames |->
                       IF f = TargetFile THEN target ELSE Present(<<"O">>)]

\* the splice specification: ledgers of at most one entry with every lines
\* array, over every target file content of up to MaxContentLen characters
InitFix ==
    /\ FreshResolver
    /\ ledgerFile \in { InvalidLedger } \cup
           { ValidLedger(l) : l \in UNION { LedgersOfLen(n, AllLineArrays) :
                                              n \in 0..1 } }
    /\ \E target \in { Absent } \cup
                     { Present(t) : t \in TextsUpTo(MaxContentLen) } :
           files = [f \in FileNames |->
                       IF f = TargetFile THEN target ELSE Present(<<"O">>)]

(***************************************************************************)
(* Helpers of the steps.                                                   *)
(***************************************************************************)
Current == discussions[idx]

\* EnhancedAICodeResolver.readFile
readFile(path) ==
    IF files[path].exists
    THEN [ok |-> TRUE, content |-> files[path].content, error |-> NoError]
    ELSE [ok |-> FALSE, content |-> << >>, error |-> Err("FileNotFound")]

\* EnhancedAICodeResolver.getLocalCodeContext
getLocalCodeContext(discussion) ==
    LET read == readFile(discussion.file)
        range == ContextLineRange(discussion.lines)
        extracted == extractCodeLines(read.content, range[1], range[2])
    IN  IF ~read.ok THEN [ok |-> FALSE, error |-> read.error,
                          context |-> NoContext]
        ELSE IF ~extracted.ok THEN [ok |-> FALSE, error |-> extracted.error,
                                    context |-> NoContext]
        ELSE [ok |-> TRUE, error |-> NoError,
              context |-> [source |-> "local-file",
                           codeContext |-> extracted.extractedCode,
                           lineNumber |-> discussion.lines[1]]]

\* updateDiscussionsFile testing the last resolved id only
unresolvedDiscussions_lastIdOnly(all, resolvedIds) ==
    SelectSeq(all, LAMBDA d :
        ~(Len(resolvedIds) > 0 /\ resolvedIds[Len(resolvedIds)] = d.id))

\* updateDiscussionsFile writing back what it was given
unresolvedDiscussions_keepsAll(all, resolvedIds) == all

\* a removal by count: as many entries leave, from the front, as there are
\* resolved ids
unresolvedDiscussions_dropsByCount(all, resolvedIds) ==
    SubSeq(all, MinOf(Len(all), Len(resolvedIds)) + 1, Len(all))

\* updateDiscussionsFile: the entries whose id is not a resolved id
unresolvedDiscussions(all, resolvedIds) ==
    SelectSeq(all, LAMBDA d :
        ~(\E k \in 1..Len(resolvedIds) : resolvedIds[k] = d.id))

\* the latest and the earliest mtime among the files ever put in the directory
Newest(mtimes) ==
    IF Len(mtimes) = 0 THEN 0
    ELSE CHOOSE t \in { mtimes[k] : k \in 1..Len(mtimes) } :
             \A k \in 1..Len(mtimes) : mtimes[k] <= t

Oldest(mtimes) ==
    IF Len(mtimes) = 0 THEN 0
    ELSE CHOOSE t \in { mtimes[k] : k \in 1..Len(mtimes) } :
             \A k \in 1..Len(mtimes) : mtimes[k] >= t

\* UndoManager.cleanupOldBackups: the files sorted by mtime, newest first;
\* all after the first KeepBackups are removed
cleanupOldBackups(dir, mtimes) ==
    [k \in 1..Len(dir) |->
        IF dir[k].exists
           /\ Cardinality({ j \in 1..Len(dir) :
                  dir[j].exists /\ mtimes[j] > mtimes[k] }) >= KeepBackups
        THEN Absent
        ELSE dir[k]]

\* processDiscussion returns: the loop of run() moves to the next discussion
Finish(result, error) ==
    /\ outcome' = [outcome EXCEPT ![idx] = result]
    /\ lastError' = error
    /\ codeContext' = NoContext
    /\ suggestedFix' = << >>
    /\ fileContent' = << >>
    /\ idx' = idx + 1
    /\ pc' = IF idx < Len(discussions) THEN "ctx" ELSE "persist"
    /\ UNCHANGED <<discussions, processedCount, ledgerFile, ledgerWrites,
                   summary, browser>>

\* a catch block that rethrows to run()
Catch_rethrows(error) ==
    /\ pc' = "fatal"
    /\ lastError' = error
    /\ UNCHANGED <<discussions, idx, codeContext, suggestedFix, fileContent,
                   processedCount, appliedCount, skippedCount,
                   resolvedDiscussionIds, outcome, ledgerFile, files, written,
                   ledgerWrites, summary, browser>>

\* a catch block that forgets to count
Catch_uncounted(error) ==
    /\ Finish("Errored", error)
    /\ UNCHANGED <<skippedCount, appliedCount, resolvedDiscussionIds, files,
                   written>>

\* the catch block of processDiscussion
Catch(error) ==
    /\ skippedCount' = skippedCount + 1
    /\ Finish("Errored", error)
    /\ UNCHANGED <<appliedCount, resolvedDiscussionIds, files, written>>

\* processDiscussion goes on to its next await
Proceed(next) ==
    /\ pc' = next
    /\ lastError' = NoError
    /\ UNCHANGED <<discussions, idx, processedCount, appliedCount,
                   skippedCount, resolvedDiscussionIds, outcome, ledgerFile,
                   files, written, ledgerWrites, summary, browser>>

(***************************************************************************)
(* run(): validateEnvironment and parseDiscussions.                        *)
(***************************************************************************)
\* a loop that starts at the second discussion
LoadLedger_loopFromSecond ==
    /\ pc = "load"
    /\ ledgerFile.valid
    /\ discussions' = ledgerFile.entries
    /\ processedCount' = Len(ledgerFile.entries)
    /\ outcome' = [k \in 1..Len(ledgerFile.entries) |-> "Pending"]
    /\ IF Len(ledgerFile.entries) = 0
       THEN pc' = "done" /\ idx' = idx
       ELSE pc' = "ctx" /\ idx' = MinOf(2, Len(ledgerFile.entries))
    /\ UNCHANGED <<ledgerFile, files, backupFiles, backupMtimes, undoFile, codeContext,
                   suggestedFix, fileContent, appliedCount, skippedCount,
                   resolvedDiscussionIds, lastError, written, ledgerWrites,
                   summary, browser>>

LoadLedger ==
    /\ pc = "load"
    /\ ledgerFile.valid
    /\ discussions' = ledgerFile.entries
    /\ processedCount' = Len(ledgerFile.entries)
    /\ outcome' = [k \in 1..Len(ledgerFile.entries) |-> "Pending"]
    /\ IF Len(ledgerFile.entries) = 0
       THEN pc' = "done" /\ idx' = idx
       ELSE pc' = "ctx" /\ idx' = 1
    /\ UNCHANGED <<ledgerFile, files, backupFiles, backupMtimes, undoFile, codeContext,
                   suggestedFix, fileContent, appliedCount, skippedCount,
                   resolvedDiscussionIds, lastError, written, ledgerWrites,
                   summary, browser>>

LoadLedgerFails ==
    /\ pc = "load"
    /\ ~ledgerFile.valid
    /\ pc' = "fatal"
    /\ lastError' = Err("ParseDiscussions")
    /\ UNCHANGED <<ledgerFile, files, backupFiles, backupMtimes, undoFile, discussions, idx,
                   codeContext, suggestedFix, fileContent, processedCount,
                   appliedCount, skippedCount, resolvedDiscussionIds, outcome,
                   written, ledgerWrites, summary, browser>>

(***************************************************************************)
(* processDiscussion(): code context.                                      *)
(***************************************************************************)
GetLocalContext ==
    /\ pc = "ctx"
    /\ ~Current.remote
    /\ LET got == getLocalCodeContext(Current)
       IN  IF got.ok
           THEN /\ codeContext' = got.context
                /\ Proceed("ai")
                /\ UNCHANGED <<suggestedFix, fileContent>>
           ELSE Catch(got.error)
    /\ UNCHANGED <<backupFiles, backupMtimes, undoFile>>

GetRemoteContext ==
    /\ pc = "ctx"
    /\ Current.remote
    /\ \E text \in RemoteContexts :
           codeContext' = [source |-> "github-pr-diff", codeContext |-> text,
                           lineNumber |-> Current.lines[1]]
    /\ Proceed("ai")
    /\ UNCHANGED <<suggestedFix, fileContent, backupFiles, backupMtimes, undoFile>>

GetRemoteContextFails ==
    /\ pc = "ctx"
    /\ Current.remote
    /\ Catch(Err("GitHubContext"))
    /\ UNCHANGED <<backupFiles, backupMtimes, undoFile>>

(***************************************************************************)
(* processDiscussion(): suggestion.                                        *)
(***************************************************************************)
\* the suggestion written to the file before it is shown for approval
CallOpenAI_appliesEarly ==
    /\ pc = "ai"
    /\ \E text \in Suggestions :
          /\ suggestedFix' = text
          /\ IF Current.remote THEN UNCHANGED <<files, written>>
             ELSE LET range == FixLineRange(Current.lines)
                  IN  /\ files' = [files EXCEPT ![Current.file] =
                             Present(applyFix(files[Current.file].content,
                                              text, range[1] - 1,
                                              range[2] - 1))]
                      /\ written' = written \cup
                             { [position |-> idx, file |-> Current.file,
                                before |-> files[Current.file].content,
                                fix |-> text] }
    /\ pc' = "approval"
    /\ lastError' = NoError
    /\ UNCHANGED <<discussions, idx, processedCount, appliedCount,
                   skippedCount, resolvedDiscussionIds, outcome, ledgerFile,
                   ledgerWrites, summary, browser, codeContext, fileContent,
                   backupFiles, backupMtimes, undoFile>>

CallOpenAI ==
    /\ pc = "ai"
    /\ \E text \in Suggestions : suggestedFix' = text
    /\ Proceed("approval")
    /\ UNCHANGED <<codeContext, fileContent, backupFiles, backupMtimes, undoFile>>

CallOpenAIFails ==
    /\ pc = "ai"
    /\ Catch(Err("OpenAI"))
    /\ UNCHANGED <<backupFiles, backupMtimes, undoFile>>

(***************************************************************************)
(* processDiscussion(): the approval decision and what follows it.         *)
(***************************************************************************)
\* a rejection recorded as resolved
Reject_marksResolved ==
    /\ pc = "approval"
    /\ skippedCount' = skippedCount + 1
    /\ resolvedDiscussionIds' = Append(resolvedDiscussionIds, Current.id)
    /\ Finish("Skipped", NoError)
    /\ UNCHANGED <<appliedCount, files, written, backupFiles, backupMtimes, undoFile>>

\* a rejection that sends the discussion back for another suggestion
Reject_asksForAnotherSuggestion ==
    /\ pc = "approval"
    /\ pc' = "ai"
    /\ suggestedFix' = << >>
    /\ UNCHANGED <<ledgerFile, files, backupFiles, backupMtimes, undoFile,
                   discussions, idx, codeContext, fileContent,
                   processedCount, appliedCount, skippedCount,
                   resolvedDiscussionIds, outcome, lastError, written,
                   ledgerWrites, summary, browser>>

Reject ==
    /\ pc = "approval"
    /\ skippedCount' = skippedCount + 1
    /\ Finish("Skipped", NoError)
    /\ UNCHANGED <<appliedCount, resolvedDiscussionIds, files, written,
                   backupFiles, backupMtimes, undoFile>>

\* the ledger rewritten as soon as a discussion is resolved
AcceptRemote_updatesLedgerNow ==
    /\ pc = "approval"
    /\ codeContext.source = "github-pr-diff"
    /\ resolvedDiscussionIds' = Append(resolvedDiscussionIds, Current.id)
    /\ appliedCount' = appliedCount + 1
    /\ ledgerFile' = ValidLedger(SelectSeq(discussions, LAMBDA d :
           ~(\E k \in 1..Len(resolvedDiscussionIds') :
                 resolvedDiscussionIds'[k] = d.id)))
    /\ ledgerWrites' = ledgerWrites + 1
    /\ outcome' = [outcome EXCEPT ![idx] = "Applied"]
    /\ lastError' = NoError
    /\ codeContext' = NoContext
    /\ suggestedFix' = << >>
    /\ fileContent' = << >>
    /\ idx' = idx + 1
    /\ pc' = IF idx < Len(discussions) THEN "ctx" ELSE "persist"
    /\ UNCHANGED <<discussions, processedCount, summary, browser, skippedCount, files,
                   written, backupFiles, backupMtimes, undoFile>>

\* an acceptance of a remote suggestion that arms the undo record
AcceptRemote_armsUndo ==
    /\ pc = "approval"
    /\ codeContext.source = "github-pr-diff"
    /\ resolvedDiscussionIds' = Append(resolvedDiscussionIds, Current.id)
    /\ appliedCount' = appliedCount + 1
    /\ undoFile' = undoData(Current.file, 0, Current.id)
    /\ Finish("Applied", NoError)
    /\ UNCHANGED <<skippedCount, files, written, backupFiles, backupMtimes>>

AcceptRemote ==
    /\ pc = "approval"
    /\ codeContext.source = "github-pr-diff"
    /\ resolvedDiscussionIds' = Append(resolvedDiscussionIds, Current.id)
    /\ appliedCount' = appliedCount + 1
    /\ Finish("Applied", NoError)
    /\ UNCHANGED <<skippedCount, files, written, backupFiles, backupMtimes, undoFile>>

\* acceptance going straight to the write, without createBackup
AcceptLocal_noBackup ==
    /\ pc = "approval"
    /\ codeContext.source # "github-pr-diff"
    /\ LET read == readFile(Current.file)
       IN  IF read.ok
           THEN /\ fileContent' = read.content
                /\ Proceed("write")
                /\ UNCHANGED <<codeContext, suggestedFix>>
           ELSE Catch(read.error)
    /\ UNCHANGED <<backupFiles, backupMtimes, undoFile>>

AcceptLocal ==
    /\ pc = "approval"
    /\ codeContext.source # "github-pr-diff"
    /\ LET read == readFile(Current.file)
       IN  IF read.ok
           THEN /\ fileContent' = read.content
                /\ Proceed("backup")
                /\ UNCHANGED <<codeContext, suggestedFix>>
           ELSE Catch(read.error)
    /\ UNCHANGED <<backupFiles, backupMtimes, undoFile>>

\* UndoManager.createBackup
CreateBackup ==
    /\ pc = "backup"
    /\ backupFiles' = Append(backupFiles, Present(fileContent))
    /\ backupMtimes' = Append(backupMtimes, Newest(backupMtimes) + 1)
    /\ undoFile' = undoData(Current.file, Len(backupFiles) + 1, Current.id)
    /\ Proceed("write")
    /\ UNCHANGED <<codeContext, suggestedFix, fileContent>>

\* createBackup throws before the backup file is on disk
CreateBackupFailsOnBackupFile ==
    /\ pc = "backup"
    /\ Catch(Err("BackupWrite"))
    /\ UNCHANGED <<backupFiles, backupMtimes, undoFile>>

\* createBackup throws on undo.json, the backup file being written
CreateBackupFailsOnUndoFile ==
    /\ pc = "backup"
    /\ backupFiles' = Append(backupFiles, Present(fileContent))
    /\ backupMtimes' = Append(backupMtimes, Newest(backupMtimes) + 1)
    /\ Catch(Err("UndoWrite"))
    /\ UNCHANGED undoFile

\* a write that does not record the discussion as resolved
WriteFix_notRecordedAsResolved ==
    /\ pc = "write"
    /\ LET range == FixLineRange(Current.lines)
           updatedContent == applyFix(fileContent, suggestedFix,
                                      range[1] - 1, range[2] - 1)
       IN  files' = [files EXCEPT ![Current.file] = Present(updatedContent)]
    /\ written' = written \cup
           { [position |-> idx, file |-> Current.file,
              before |-> files[Current.file].content, fix |-> suggestedFix] }
    /\ appliedCount' = appliedCount + 1
    /\ Finish("Applied", NoError)
    /\ UNCHANGED <<resolvedDiscussionIds, skippedCount, backupFiles,
                   backupMtimes, undoFile>>

WriteFix ==
    /\ pc = "write"
    /\ LET range == FixLineRange(Current.lines)
           updatedContent == applyFix(fileContent, suggestedFix,
                                      range[1] - 1, range[2] - 1)
       IN  files' = [files EXCEPT ![Current.file] = Present(updatedContent)]
    /\ written' = written \cup
           { [position |-> idx, file |-> Current.file,
              before |-> files[Current.file].content, fix |-> suggestedFix] }
    /\ resolvedDiscussionIds' = Append(resolvedDiscussionIds, Current.id)
    /\ appliedCount' = appliedCount + 1
    /\ Finish("Applied", NoError)
    /\ UNCHANGED <<skippedCount, backupFiles, backupMtimes, undoFile>>

WriteFixFails ==
    /\ pc = "write"
    /\ Catch(Err("FileWrite"))
    /\ UNCHANGED <<backupFiles, backupMtimes, undoFile>>

(***************************************************************************)
(* run(): after the loop.                                                  *)
(***************************************************************************)
\* displaySummary and cleanupOldBackups, which end run()
Conclude ==
    /\ summary' = [shown |-> TRUE, processed |-> processedCount,
                   applied |-> appliedCount, skipped |-> skippedCount]
    /\ backupFiles' = cleanupOldBackups(backupFiles, backupMtimes)
    /\ pc' = "done"
    /\ lastError' = NoError
    /\ UNCHANGED <<files, backupMtimes, undoFile, discussions, idx, codeContext,
                   suggestedFix, fileContent, processedCount, appliedCount,
                   skippedCount, resolvedDiscussionIds, outcome, written,
                   browser>>

UpdateLedger ==
    /\ pc = "persist"
    /\ Len(resolvedDiscussionIds) > 0
    /\ ledgerFile' = ValidLedger(unresolvedDiscussions(discussions,
                                                       resolvedDiscussionIds))
    /\ ledgerWrites' = ledgerWrites + 1
    /\ Conclude

UpdateLedgerFails ==
    /\ pc = "persist"
    /\ Len(resolvedDiscussionIds) > 0
    /\ pc' = "fatal"
    /\ lastError' = Err("LedgerWrite")
    /\ UNCHANGED <<ledgerFile, files, backupFiles, backupMtimes, undoFile, discussions, idx,
                   codeContext, suggestedFix, fileContent, processedCount,
                   appliedCount, skippedCount, resolvedDiscussionIds, outcome,
                   written, ledgerWrites, summary, browser>>

\* fs.writeJSON is interrupted after discussions.json has been opened for
\* writing (truncated) and before the whole text is in it
UpdateLedgerInterrupted ==
    /\ pc = "persist"
    /\ Len(resolvedDiscussionIds) > 0
    /\ ledgerFile' = InvalidLedger
    /\ pc' = "fatal"
    /\ lastError' = Err("LedgerWrite")
    /\ UNCHANGED <<files, backupFiles, backupMtimes, undoFile, discussions,
                   idx, codeContext, suggestedFix, fileContent,
                   processedCount, appliedCount, skippedCount,
                   resolvedDiscussionIds, outcome, written, ledgerWrites,
                   summary, browser>>

\* a run that returns without its summary when it resolved nothing
NothingResolved_returnsEarly ==
    /\ pc = "persist"
    /\ Len(resolvedDiscussionIds) = 0
    /\ pc' = "done"
    /\ lastError' = NoError
    /\ UNCHANGED <<ledgerFile, files, backupFiles, backupMtimes, undoFile,
                   discussions, idx, codeContext, suggestedFix, fileContent,
                   processedCount, appliedCount, skippedCount,
                   resolvedDiscussionIds, outcome, written, ledgerWrites,
                   summary, browser>>

NothingResolved ==
    /\ pc = "persist"
    /\ Len(resolvedDiscussionIds) = 0
    /\ UNCHANGED <<ledgerFile, ledgerWrites>>
    /\ Conclude

Next ==
    \/ LoadLedger
    \/ LoadLedgerFails
    \/ GetLocalContext
    \/ GetRemoteContext
    \/ GetRemoteContextFails
    \/ CallOpenAI
    \/ CallOpenAIFails
    \/ Reject
    \/ AcceptRemote
    \/ AcceptLocal
    \/ CreateBackup
    \/ CreateBackupFailsOnBackupFile
    \/ CreateBackupFailsOnUndoFile
    \/ WriteFix
    \/ WriteFixFails
    \/ UpdateLedger
    \/ UpdateLedgerFails
    \/ UpdateLedgerInterrupted
    \/ NothingResolved

\* the coordinator specification
Spec == Init /\ [][Next]_vars

\* the splice specification
SpecFix == InitFix /\ [][Next]_vars

(***************************************************************************)
(* The UndoManager over successive invocations: a fix is applied to one of *)
(* two files (createBackup, then the resolver's writeFile), the undo       *)
(* command runs, backups are pruned, everything is cleared, or a file is   *)
(* removed from the working tree.  pc is "write" while the resolver stands *)
(* between createBackup and writeFile, and "done" after every other step.  *)
(***************************************************************************)
\* the discussions whose fixes get applied, one per file
UndoDiscussions ==
    { LocalDiscussion(DiscussionIds[1], <<1>>),
      [LocalDiscussion(DiscussionIds[2], <<1>>) EXCEPT !.file = OtherFile] }

\* the accepted suggestion of every fix
UndoFix == <<"F">>

\* what new Date() and the file system may date a new backup file with: a
\* time after every file of the directory or, the clock being wrong once
\* in the life of the directory, a time before every one of them
ClockReadings(mtimes) ==
    { Newest(mtimes) + 1 } \cup
        IF \A j, k \in 1..Len(mtimes) : j < k => mtimes[j] < mtimes[k]
        THEN { Oldest(mtimes) - 1 } ELSE {}

InitUndo ==
    /\ FreshResolver
    /\ ledgerFile = ValidLedger(<< >>)
    /\ files = [f \in FileNames |->
                   IF f = TargetFile THEN Present(FixtureContent(2))
                   ELSE Present(<<"O">>)]

\* canUndo looking at the target file before the backup file
canUndo_targetCheckedFirst ==
    IF ~undoFile.present
    THEN [canUndo |-> FALSE, reason |-> "No undo data found"]
    ELSE IF ~undoFile.backupExists
    THEN [canUndo |-> FALSE, reason |-> "Backup file was already used"]
    ELSE IF ~files[undoFile.filePath].exists
    THEN [canUndo |-> FALSE, reason |-> "Original file no longer exists"]
    ELSE IF ~backupFiles[undoFile.backupFilePath].exists
    THEN [canUndo |-> FALSE, reason |-> "Backup file no longer exists"]
    ELSE [canUndo |-> TRUE, reason |-> NoValue]

\* UndoManager.canUndo
canUndo ==
    IF ~undoFile.present
    THEN [canUndo |-> FALSE, reason |-> "No undo data found"]
    ELSE IF ~undoFile.backupExists
    THEN [canUndo |-> FALSE, reason |-> "Backup file was already used"]
    ELSE IF ~backupFiles[undoFile.backupFilePath].exists
    THEN [canUndo |-> FALSE, reason |-> "Backup file no longer exists"]
    ELSE IF ~files[undoFile.filePath].exists
    THEN [canUndo |-> FALSE, reason |-> "Original file no longer exists"]
    ELSE [canUndo |-> TRUE, reason |-> NoValue]

\* UndoManager.getUndoStatus
getUndoStatus == [available |-> canUndo.canUndo, reason |-> canUndo.reason]

UndoUnchanged ==
    UNCHANGED <<ledgerFile, idx, codeContext, suggestedFix, processedCount,
                appliedCount, skippedCount, resolvedDiscussionIds, outcome,
                written, ledgerWrites, summary, browser>>

\* createBackup leaving an armed record in place
UndoCreateBackup_keepsArmedRecord ==
    /\ Len(backupFiles) < MaxBackups
    /\ \E d \in UndoDiscussions, now \in ClockReadings(backupMtimes) :
           /\ readFile(d.file).ok
           /\ discussions' = <<d>>
           /\ fileContent' = readFile(d.file).content
           /\ backupFiles' = Append(backupFiles, Present(fileContent'))
           /\ backupMtimes' = Append(backupMtimes, now)
           /\ undoFile' = IF undoFile.present /\ undoFile.backupExists
                          THEN undoFile
                          ELSE undoData(d.file, Len(backupFiles) + 1, d.id)
    /\ pc' = "write"
    /\ lastError' = NoError
    /\ UNCHANGED files
    /\ UndoUnchanged

\* processDiscussion reads the file and hands its content to createBackup
UndoCreateBackup ==
    /\ Len(backupFiles) < MaxBackups
    /\ \E d \in UndoDiscussions, now \in ClockReadings(backupMtimes) :
           /\ readFile(d.file).ok
           /\ discussions' = <<d>>
           /\ fileContent' = readFile(d.file).content
           /\ backupFiles' = Append(backupFiles, Present(fileContent'))
           /\ backupMtimes' = Append(backupMtimes, now)
           /\ undoFile' = undoData(d.file, Len(backupFiles) + 1, d.id)
    /\ pc' = "write"
    /\ lastError' = NoError
    /\ UNCHANGED files
    /\ UndoUnchanged

\* processDiscussion writes the fixed content once the backup is taken
UndoWriteFile ==
    /\ pc = "write"
    /\ LET range == FixLineRange(discussions[1].lines)
           updatedContent == applyFix(fileContent, UndoFix,
                                      range[1] - 1, range[2] - 1)
       IN  files' = [files EXCEPT
                        ![discussions[1].file] = Present(updatedContent)]
    /\ pc' = "done"
    /\ lastError' = NoError
    /\ UNCHANGED <<backupFiles, backupMtimes, undoFile, discussions,
                   fileContent>>
    /\ UndoUnchanged

\* performUndo restoring the oldest backup, not the one of the record
PerformUndo_restoresOldestBackup ==
    /\ canUndo.canUndo
    /\ files' = [files EXCEPT
                    ![undoFile.filePath] = Present(backupFiles[1].content)]
    /\ undoFile' = [undoFile EXCEPT !.backupExists = FALSE,
                                    !.undoneAt = "timestamp"]
    /\ pc' = "done"
    /\ lastError' = NoError
    /\ UNCHANGED <<backupFiles, backupMtimes, discussions, fileContent>>
    /\ UndoUnchanged

\* performUndo stamping the record without marking the backup used
PerformUndo_staysArmed ==
    /\ canUndo.canUndo
    /\ LET backupContent == backupFiles[undoFile.backupFilePath].content
       IN  files' = [files EXCEPT ![undoFile.filePath] = Present(backupContent)]
    /\ undoFile' = [undoFile EXCEPT !.undoneAt = "timestamp"]
    /\ pc' = "done"
    /\ lastError' = NoError
    /\ UNCHANGED <<backupFiles, backupMtimes, discussions, fileContent>>
    /\ UndoUnchanged

\* performUndo putting the discussion of the undone change back on the ledger
PerformUndo_restoresLedgerEntry ==
    /\ canUndo.canUndo
    /\ LET backupContent == backupFiles[undoFile.backupFilePath].content
       IN  files' = [files EXCEPT ![undoFile.filePath] = Present(backupContent)]
    /\ undoFile' = [undoFile EXCEPT !.backupExists = FALSE,
                                    !.undoneAt = "timestamp"]
    /\ ledgerFile' = ValidLedger(<<discussions[1]>>)
    /\ pc' = "done"
    /\ lastError' = NoError
    /\ UNCHANGED <<backupFiles, backupMtimes, discussions, fileContent>>
    /\ UNCHANGED <<idx, codeContext, suggestedFix, processedCount,
                   appliedCount, skippedCount, resolvedDiscussionIds, outcome,
                   written, ledgerWrites, summary, browser>>

\* UndoManager.performUndo, canUndo allowing it
PerformUndo ==
    /\ canUndo.canUndo
    /\ LET backupContent == backupFiles[undoFile.backupFilePath].content
       IN  files' = [files EXCEPT ![undoFile.filePath] = Present(backupContent)]
    /\ undoFile' = [undoFile EXCEPT !.backupExists = FALSE,
                                    !.undoneAt = "timestamp"]
    /\ pc' = "done"
    /\ lastError' = NoError
    /\ UNCHANGED <<backupFiles, backupMtimes, discussions, fileContent>>
    /\ UndoUnchanged

\* performUndo writing a missing target file back before it throws
PerformUndoRefused_recreatesTarget ==
    /\ ~canUndo.canUndo
    /\ pc' = "done"
    /\ lastError' = Err(canUndo.reason)
    /\ files' = IF canUndo.reason = "Original file no longer exists"
                THEN [files EXCEPT ![undoFile.filePath] =
                         Present(backupFiles[undoFile.backupFilePath].content)]
                ELSE files
    /\ UNCHANGED <<backupFiles, backupMtimes, undoFile, discussions,
                   fileContent>>
    /\ UndoUnchanged

\* UndoManager.performUndo throwing canUndo's reason
PerformUndoRefused ==
    /\ ~canUndo.canUndo
    /\ pc' = "done"
    /\ lastError' = Err(canUndo.reason)
    /\ UNCHANGED <<files, backupFiles, backupMtimes, undoFile, discussions,
                   fileContent>>
    /\ UndoUnchanged

\* UndoManager.cleanupOldBackups, as run() calls it before returning
CleanupOldBackups ==
    /\ backupFiles' = cleanupOldBackups(backupFiles, backupMtimes)
    /\ pc' = "done"
    /\ lastError' = NoError
    /\ UNCHANGED <<files, backupMtimes, undoFile, discussions, fileContent>>
    /\ UndoUnchanged

\* UndoManager.clearAll: undo.json and the backup directory are removed
ClearAll ==
    /\ undoFile' = NoUndo
    /\ backupFiles' = << >>
    /\ backupMtimes' = << >>
    /\ pc' = "done"
    /\ lastError' = NoError
    /\ UNCHANGED <<files, discussions, fileContent>>
    /\ UndoUnchanged

\* the file of an undoable change leaves the working tree between two
\* invocations
FileRemoved ==
    /\ canUndo.canUndo
    /\ files' = [files EXCEPT ![undoFile.filePath] = Absent]
    /\ pc' = "done"
    /\ lastError' = NoError
    /\ UNCHANGED <<backupFiles, backupMtimes, undoFile, discussions,
                   fileContent>>
    /\ UndoUnchanged

NextUndo ==
    \/ UndoCreateBackup
    \/ UndoWriteFile
    \/ PerformUndo
    \/ PerformUndoRefused
    \/ CleanupOldBackups
    \/ ClearAll
    \/ FileRemoved

SpecUndo == InitUndo /\ [][NextUndo]_vars

(***************************************************************************)
(* The run over a discussions.json as found on disk: entries that may lack *)
(* fields go through the validation of parseDiscussions.  A field that is  *)
(* undefined, null, 0 or "" is falsy for the tests of the code; id 0,      *)
(* comment "" and file "" stand for these.                                 *)
(***************************************************************************)
\* the lines field as found: no value, a value that is not an array, an
\* empty array, an array of line numbers
RawLines ==
    { [linesKind |-> "undefined", lines |-> << >>],
      [linesKind |-> "scalar", lines |-> << >>],
      [linesKind |-> "array", lines |-> << >>],
      [linesKind |-> "array", lines |-> <<1>>] }

RawEntries ==
    { [id |-> i, comment |-> c, file |-> f, remote |-> FALSE,
       linesKind |-> l.linesKind, lines |-> l.lines] :
          i \in {0, DiscussionIds[1], DiscussionIds[2]},
          c \in {"", "c"},
          f \in {"", TargetFile},
          l \in RawLines }

RawLedgers ==
    UNION { [1..n -> RawEntries] : n \in 0..MaxDiscussions }

ParseError(kind, index, id) == [kind |-> kind, index |-> index, id |-> id]

\* the test of the first if of the forEach callback
MissingRequiredFields(d) ==
    d.id = 0 \/ d.comment = "" \/ d.linesKind = "undefined"

\* the test of its second if
InvalidLinesArray(d) ==
    d.linesKind # "array" \/ Len(d.lines) = 0

\* the entry as the loop gets it, file defaulted
Parsed(d) ==
    [id |-> d.id, file |-> IF d.file = "" THEN OtherFile ELSE d.file,
     lines |-> d.lines, remote |-> d.remote]

\* a validation that goes through all the entries and throws the last
\* violation it met
parseDiscussions_reportsLastViolation(ledger) ==
    LET entries == ledger.entries
        bad == { k \in 1..Len(entries) :
                   MissingRequiredFields(entries[k])
                       \/ InvalidLinesArray(entries[k]) }
        first == CHOOSE k \in bad : \A j \in bad : k >= j
    IN  IF ~ledger.valid
        THEN [ok |-> FALSE, discussions |-> << >>,
              error |-> ParseError("ParseDiscussions", 0, 0)]
        ELSE IF bad = {}
        THEN [ok |-> TRUE,
              discussions |-> [k \in 1..Len(entries) |-> Parsed(entries[k])],
              error |-> NoError]
        ELSE IF MissingRequiredFields(entries[first])
        THEN [ok |-> FALSE, discussions |-> << >>,
              error |-> ParseError("MissingRequiredFields", first - 1, 0)]
        ELSE [ok |-> FALSE, discussions |-> << >>,
              error |-> ParseError("InvalidLinesArray", 0,
                                   entries[first].id)]

\* parseDiscussions: the entries in order, the first violation thrown
parseDiscussions(ledger) ==
    LET entries == ledger.entries
        bad == { k \in 1..Len(entries) :
                   MissingRequiredFields(entries[k])
                       \/ InvalidLinesArray(entries[k]) }
        first == CHOOSE k \in bad : \A j \in bad : k <= j
    IN  IF ~ledger.valid
        THEN [ok |-> FALSE, discussions |-> << >>,
              error |-> ParseError("ParseDiscussions", 0, 0)]
        ELSE IF bad = {}
        THEN [ok |-> TRUE,
              discussions |-> [k \in 1..Len(entries) |-> Parsed(entries[k])],
              error |-> NoError]
        ELSE IF MissingRequiredFields(entries[first])
        THEN [ok |-> FALSE, discussions |-> << >>,
              error |-> ParseError("MissingRequiredFields", first - 1, 0)]
        ELSE [ok |-> FALSE, discussions |-> << >>,
              error |-> ParseError("InvalidLinesArray", 0,
                                   entries[first].id)]

InitLedger ==
    /\ FreshResolver
    /\ ledgerFile \in { InvalidLedger } \cup
                      { ValidLedger(l) : l \in RawLedgers }
    /\ files = [f \in FileNames |->
                   IF f = TargetFile THEN Present(FixtureContent(2))
                   ELSE Present(<<"O">>)]

\* run(): parseDiscussions returns
ParseDiscussions ==
    /\ pc = "load"
    /\ LET parsed == parseDiscussions(ledgerFile)
       IN  /\ parsed.ok
           /\ discussions' = parsed.discussions
           /\ processedCount' = Len(parsed.discussions)
           /\ outcome' = [k \in 1..Len(parsed.discussions) |-> "Pending"]
           /\ IF Len(parsed.discussions) = 0
              THEN pc' = "done" /\ idx' = idx
              ELSE pc' = "ctx" /\ idx' = 1
    /\ UNCHANGED <<ledgerFile, files, backupFiles, backupMtimes, undoFile,
                   codeContext, suggestedFix, fileContent, appliedCount,
                   skippedCount, resolvedDiscussionIds, lastError, written,
                   ledgerWrites, summary, browser>>

\* run(): parseDiscussions throws, the catch of run() exits the process
ParseDiscussionsFails ==
    /\ pc = "load"
    /\ ~parseDiscussions(ledgerFile).ok
    /\ pc' = "fatal"
    /\ lastError' = parseDiscussions(ledgerFile).error
    /\ UNCHANGED <<ledgerFile, files, backupFiles, backupMtimes, undoFile,
                   discussions, idx, codeContext, suggestedFix, fileContent,
                   processedCount, appliedCount, skippedCount,
                   resolvedDiscussionIds, outcome, written, ledgerWrites,
                   summary, browser>>

NextLedger ==
    \/ ParseDiscussions
    \/ ParseDiscussionsFails
    \/ GetLocalContext
    \/ CallOpenAI
    \/ CallOpenAIFails
    \/ Reject
    \/ AcceptLocal
    \/ CreateBackup
    \/ CreateBackupFailsOnBackupFile
    \/ CreateBackupFailsOnUndoFile
    \/ WriteFix
    \/ WriteFixFails
    \/ UpdateLedger
    \/ UpdateLedgerFails
    \/ UpdateLedgerInterrupted
    \/ NothingResolved

\* the ledger specification
SpecLedger == InitLedger /\ [][NextLedger]_vars

(***************************************************************************)
(* The run under the scheduling of the event loop: every awaited call of   *)
(* run() and processDiscussion() returns or throws, so a step that is not  *)
(* the approval decision is eventually taken; the decision itself is the   *)
(* answer of the user to the inquirer prompt and may never come.           *)
(***************************************************************************)
InitLive ==
    /\ FreshResolver
    /\ ledgerFile \in { InvalidLedger } \cup
           { ValidLedger(l) : l \in UNION { LedgersOfLen(n, SingleLines) :
                                              n \in 0..MaxDiscussions } }
    /\ \E target \in { Absent, Present(FixtureContent(1)) } :
           files = [f \in FileNames |->
                       IF f = TargetFile THEN target ELSE Present(<<"O">>)]

\* getUserApproval resolves
ApprovalDecision == Reject \/ AcceptRemote \/ AcceptLocal

\* every other await of the run
AwaitedStep ==
    \/ LoadLedger
    \/ LoadLedgerFails
    \/ GetLocalContext
    \/ GetRemoteContext
    \/ GetRemoteContextFails
    \/ CallOpenAI
    \/ CallOpenAIFails
    \/ CreateBackup
    \/ CreateBackupFailsOnBackupFile
    \/ CreateBackupFailsOnUndoFile
    \/ WriteFix
    \/ WriteFixFails
    \/ UpdateLedger
    \/ UpdateLedgerFails
    \/ UpdateLedgerInterrupted
    \/ NothingResolved

\* the run with its scheduling
SpecLive == InitLive /\ [][Next]_vars /\ WF_vars(AwaitedStep)

(***************************************************************************)
(* Vocabulary of the properties.                                           *)
(***************************************************************************)
InLoop == pc \in {"ctx", "ai", "approval", "backup", "write"}

\* the lines of a text, 1-based
LinesOf(text) == Split(text)

\* the 1-based lines first..last of a text, last clamped to the text
LinesBetween(text, first, last) ==
    SubSeq(LinesOf(text), first, MinOf(last, Len(LinesOf(text))))

\* first and last declared line of a discussion
FirstLine(d) == ArrMin(d.lines)

LastLine(d) == ArrMax(d.lines)

\* a source file is being written in this step
WritingFile == written' # written

\* the entry of the write log made in this step
ThisWrite == CHOOSE w \in written' : w \notin written

IdsOf(entries) == { entries[k].id : k \in 1..Len(entries) }

(***************************************************************************)
(* C1: for every local-file discussion the lines extracted as context are  *)
(* exactly the lines applyFix replaces on acceptance, the 1-based lines    *)
(* min(lines)..max(lines) of the file.  Stated in the state where the      *)
(* accepted fix is about to be spliced in.                                 *)
(***************************************************************************)
C1_ContextIsWhatGetsReplaced ==
    pc = "write" =>
        codeContext.codeContext =
            Join(LinesBetween(fileContent, FirstLine(Current),
                              LastLine(Current)))

(***************************************************************************)
(* C2: an accepted fix leaves every line before min(lines) and every line  *)
(* after max(lines) of the target file as it was, in order: the file       *)
(* becomes lines before ++ replacement lines ++ lines after, and no other  *)
(* file changes.                                                           *)
(***************************************************************************)
C2_FixTouchesOnlyItsRange ==
    [][WritingFile =>
         LET d == Current
             old == LinesOf(files[d.file].content)
             new == LinesOf(files'[d.file].content)
         IN  /\ new = SubSeq(old, 1, FirstLine(d) - 1)
                      \o LinesOf(suggestedFix)
                      \o SubSeq(old, LastLine(d) + 1, Len(old))
             /\ \A f \in FileNames \ {d.file} : files'[f] = files[f]
      ]_vars

\* C2 witness: a fix was written between a kept line before and a kept line
\* after the declared range
C2_Witness ==
    \E w \in written :
        /\ LinesOf(w.before) = << <<"x">>, << >>, <<"x">> >>
        /\ w.fix = <<"F", NL, "G">>
        /\ files[w.file].content = <<"x", NL, "F", NL, "G", NL, "x">>

(***************************************************************************)
(* C3: round trip.  After applyFix over a discussion's line range that     *)
(* lies inside the file, extracting the same line range from the result    *)
(* (with the extraction used for context) yields exactly the replacement   *)
(* text.  Stated for a replacement of as many lines as the range has, the  *)
(* case in which the range still denotes the replaced window.              *)
(***************************************************************************)
C3_ReExtractionYieldsReplacement ==
    [][(/\ WritingFile
        /\ LastLine(Current) <= Len(LinesOf(files[Current.file].content))
        /\ Len(LinesOf(suggestedFix))
               = LastLine(Current) - FirstLine(Current) + 1)
       =>
         LET range == ContextLineRange(Current.lines)
             again == extractCodeLines(files'[Current.file].content,
                                       range[1], range[2])
         IN  again.ok /\ again.extractedCode = suggestedFix
      ]_vars

(***************************************************************************)
(* C4: end to end, acceptance.  Once the run has completed, no discussion  *)
(* whose fix was written is left in the persisted ledger, and the target   *)
(* file holds the suggestion in place of the declared lines of the last    *)
(* fix written ("L1\nL2\nL3", lines [2], "L2-fixed" gives                  *)
(* "L1\nL2-fixed\nL3" and ledger []).                                      *)
(***************************************************************************)
C4_AcceptedFixInFileAndOffLedger ==
    pc = "done" =>
        \A w \in written :
            LET d == discussions[w.position]
                before == LinesOf(w.before)
            IN  /\ d.id \notin IdsOf(ledgerFile.entries)
                /\ (\A v \in written : v.position <= w.position) =>
                       LinesOf(files[w.file].content) =
                           SubSeq(before, 1, FirstLine(d) - 1)
                           \o LinesOf(w.fix)
                           \o SubSeq(before, LastLine(d) + 1, Len(before))

\* C4 witness: the end-to-end example of the specification
C4_Witness ==
    /\ pc = "done"
    /\ discussions = << LocalDiscussion(11, <<2>>) >>
    /\ \E w \in written : w.before = <<"L1", NL, "L2", NL, "L3">>
    /\ files[TargetFile].content = <<"L1", NL, "L2-fixed", NL, "L3">>
    /\ ledgerFile = ValidLedger(<< >>)

(***************************************************************************)
(* C5: end to end, rejection.  The step that takes a rejection changes no  *)
(* source file, nothing of the undo record or the backup directory and     *)
(* nothing of the ledger, and once the run has completed every rejected    *)
(* discussion is still an entry of the persisted ledger.                   *)
(***************************************************************************)
C5_RejectionChangesNothing ==
    /\ [](pc = "done" =>
            \A k \in 1..Len(discussions) :
                outcome[k] = "Skipped" =>
                    \E j \in 1..Len(ledgerFile.entries) :
                        ledgerFile.entries[j] = discussions[k])
    /\ [][(pc = "approval" /\ outcome'[idx] = "Skipped") =>
            /\ files' = files
            /\ undoFile' = undoFile
            /\ backupFiles' = backupFiles
            /\ ledgerFile' = ledgerFile
            /\ resolvedDiscussionIds' = resolvedDiscussionIds
         ]_vars

\* C5 witness: the ledger was rewritten for an applied discussion and a
\* rejected one is still in it
C5_Witness ==
    /\ pc = "done"
    /\ ledgerWrites = 1
    /\ \E k \in 1..Len(discussions) :
           /\ outcome[k] = "Skipped"
           /\ ledgerFile.entries = << discussions[k] >>

(***************************************************************************)
(* C6: out of bounds.  For a local-file discussion on an existing file     *)
(* whose 0-based start line (declared line - 1) is at or beyond the line   *)
(* count, context extraction fails with an error naming the requested      *)
(* line and the line count, the discussion is recorded as errored and      *)
(* neither the file nor the ledger changes; otherwise extraction succeeds  *)
(* and an end line beyond the file is clamped to the last line.  An        *)
(* errored discussion is still in the ledger when the run has completed.   *)
(***************************************************************************)
C6_OutOfBoundsIsAnErrorEndIsClamped ==
    /\ [](pc = "done" =>
            \A k \in 1..Len(discussions) :
                outcome[k] = "Errored" =>
                    \E j \in 1..Len(ledgerFile.entries) :
                        ledgerFile.entries[j] = discussions[k])
    /\ [][(pc = "ctx" /\ ~Current.remote /\ files[Current.file].exists) =>
            LET content == files[Current.file].content
                count == Len(LinesOf(content))
                first == FirstLine(Current)
                last  == LastLine(Current)
            IN  IF first - 1 >= count
                THEN /\ outcome'[idx] = "Errored"
                     /\ lastError' = [kind |-> "StartLineBeyondFileLength",
                                      line |-> first, length |-> count]
                     /\ files' = files
                     /\ ledgerFile' = ledgerFile
                     /\ resolvedDiscussionIds' = resolvedDiscussionIds
                ELSE /\ pc' = "ai"
                     /\ lastError' = NoError
                     /\ last > count =>
                            codeContext'.codeContext =
                                Join(SubSeq(LinesOf(content), first, count))
         ]_vars

\* C6 witness: on a 1-line file, a range ending beyond the file got a context
\* and a discussion of line 2 was refused with line 2 and length 1
C6_Witness ==
    /\ lastError = [kind |-> "StartLineBeyondFileLength",
                    line |-> 2, length |-> 1]
    /\ Len(discussions) = 2
    /\ discussions[1].lines = <<2, 1>>
    /\ outcome = <<"Skipped", "Errored">>

C8_NothingWrittenWhileAwaitingApproval ==
    pc = "approval" =>
        /\ ledgerWrites = 0
        /\ ledgerFile = ValidLedger(discussions)
        /\ \A w \in written : w.position < idx
        /\ ~Current.remote =>
               /\ getLocalCodeContext(Current).ok
               /\ getLocalCodeContext(Current).context = codeContext
        /\ undoFile.present => undoFile.discussionId # Current.id
        /\ \A k \in 1..Len(resolvedDiscussionIds) :
               resolvedDiscussionIds[k] # Current.id

\* C8 witness: awaiting approval of the second discussion after the fix of
\* the first was written
C8_Witness ==
    /\ pc = "approval"
    /\ idx = 2
    /\ written # {}

(***************************************************************************)
(* C9: failure isolation.  Every error raised inside processDiscussion     *)
(* (context, suggestion, backup, write) marks the discussion errored and   *)
(* hands control to the next discussion, or to the ledger update after     *)
(* the last one; the run is aborted only from ledger load or ledger        *)
(* persist.                                                                *)
(***************************************************************************)
C9_ErrorsDoNotAbortTheBatch ==
    [][/\ (InLoop /\ lastError' # NoError) =>
            /\ outcome'[idx] = "Errored"
            /\ idx' = idx + 1
            /\ pc' = IF idx < Len(discussions) THEN "ctx" ELSE "persist"
       /\ (pc' = "fatal" /\ pc # "fatal") => pc \in {"load", "persist"}
      ]_vars

\* C9 witness: the first discussion errored and the second was applied
C9_Witness ==
    /\ pc = "done"
    /\ Len(discussions) = 2
    /\ outcome = <<"Errored", "Applied">>

(***************************************************************************)
(* C10: counters.  appliedCount counts the applied discussions and         *)
(* skippedCount the skipped and the errored ones, so that during the loop  *)
(* applied + skipped is the number of discussions handled so far and       *)
(* after it applied + skipped = processed = number of discussions loaded.  *)
(***************************************************************************)
C10_CountersClassifyEachDiscussionOnce ==
    pc # "load" =>
        LET handled == IF InLoop THEN idx - 1 ELSE Len(discussions)
            appliedOnes == { k \in 1..Len(discussions) :
                               outcome[k] = "Applied" }
            skippedOnes == { k \in 1..Len(discussions) :
                               outcome[k] \in {"Skipped", "Errored"} }
        IN  /\ appliedCount = Cardinality(appliedOnes)
            /\ skippedCount = Cardinality(skippedOnes)
            /\ appliedCount + skippedCount = handled
            /\ processedCount = Len(discussions)
            /\ appliedOnes \cup skippedOnes = 1..handled

\* C10 witness: a run of two discussions ended with one applied and one
\* errored, counted as skipped
C10_Witness ==
    /\ pc = "done"
    /\ processedCount = 2
    /\ appliedCount = 1
    /\ skippedCount = 1
    /\ \E k \in 1..2 : outcome[k] = "Errored"

(***************************************************************************)
(* C11: the ledger is persisted at most once per run and only after every  *)
(* discussion has reached a terminal outcome; that one update removes all  *)
(* resolved ids together.                                                  *)
(***************************************************************************)
Terminal == {"Applied", "Skipped", "Errored"}

C11_LedgerPersistedOnceAfterTheLoop ==
    /\ [](ledgerWrites <= 1)
    /\ [][(ledgerFile' # ledgerFile \/ ledgerWrites' # ledgerWrites) =>
            /\ pc = "persist"
            /\ ledgerWrites = 0
            /\ \A k \in 1..Len(discussions) : outcome[k] \in Terminal
            /\ \A k \in 1..Len(resolvedDiscussionIds) :
                   resolvedDiscussionIds[k] \notin IdsOf(ledgerFile'.entries)
         ]_vars

\* C11 witness: two resolved ids left the ledger in its only update
C11_Witness ==
    /\ pc = "done"
    /\ ledgerWrites = 1
    /\ Len(resolvedDiscussionIds) = 2
    /\ ledgerFile = ValidLedger(<< >>)

(***************************************************************************)
(* C12: discussions are processed one at a time in ledger order.  While    *)
(* discussion idx is in progress every earlier one has a terminal outcome  *)
(* and no later one has been started; the loop position only ever moves    *)
(* to the next entry, leaving a terminal outcome behind; and no step       *)
(* touches both a source file and the ledger.                              *)
(***************************************************************************)
C12_OneDiscussionAtATimeInOrder ==
    /\ [](InLoop =>
            /\ idx \in 1..Len(discussions)
            /\ \A k \in 1..Len(discussions) :
                   /\ k < idx => outcome[k] \in Terminal
                   /\ k >= idx => outcome[k] = "Pending")
    /\ [](pc \in {"persist", "done"} =>
            /\ codeContext = NoContext
            /\ \A k \in 1..Len(discussions) : outcome[k] \in Terminal)
    /\ [][/\ (InLoop /\ idx' # idx) =>
               /\ idx' = idx + 1
               /\ outcome'[idx] \in Terminal
               /\ codeContext' = NoContext
          /\ ~(files' # files /\ ledgerFile' # ledgerFile)
         ]_vars

\* C12 witness: the second discussion is in progress, the first is done
C12_Witness ==
    /\ pc = "ai"
    /\ idx = 2
    /\ outcome[1] = "Applied"
    /\ outcome[2] = "Pending"

(***************************************************************************)
(* Vocabulary of the undo properties.  The change made last is the one of  *)
(* the latest createBackup call: discussions[1] is its discussion and      *)
(* fileContent the originalContent it was given.                           *)
(***************************************************************************)
LatestChange == discussions[1]

Armed == undoFile.present /\ undoFile.backupExists

Consumed == undoFile.present /\ ~undoFile.backupExists

BackupOnDisk ==
    undoFile.present /\ backupFiles[undoFile.backupFilePath].exists

TargetOnDisk == undoFile.present /\ files[undoFile.filePath].exists

\* a step in which performUndo returns success: the record gets its stamp
UndoSucceeds ==
    /\ undoFile.undoneAt = NoValue
    /\ undoFile'.present
    /\ undoFile'.undoneAt # NoValue

\* the content of a file whose line 1 has been fixed
Fixed(content) ==
    applyFix(content, UndoFix, FixLineRange(<<1>>)[1] - 1,
             FixLineRange(<<1>>)[2] - 1)

(***************************************************************************)
(* C13: a successful performUndo leaves the target file with exactly the   *)
(* content handed to the latest createBackup (the content before the most  *)
(* recent fix, earlier fixes included), leaves every other file alone, and *)
(* marks the record consumed and stamped, its other fields unchanged.      *)
(***************************************************************************)
C13_UndoRestoresContentBeforeLatestFix ==
    [][UndoSucceeds =>
         /\ files'[LatestChange.file] = Present(fileContent)
         /\ \A f \in FileNames \ { LatestChange.file } : files'[f] = files[f]
         /\ undoFile' = [undoFile EXCEPT !.backupExists = FALSE,
                                         !.undoneAt = undoFile'.undoneAt]
         /\ ~undoFile'.backupExists
         /\ backupFiles' = backupFiles
      ]_vars

\* C13 witness: a.js was fixed, app.js was fixed after it and the undo put
\* app.js back while a.js keeps its fix
C13_Witness ==
    /\ Consumed
    /\ undoFile.undoneAt # NoValue
    /\ undoFile.filePath = OtherFile
    /\ Len(backupFiles) = 2
    /\ backupFiles[1].content = FixtureContent(2)
    /\ files[TargetFile] = Present(Fixed(FixtureContent(2)))
    /\ files[OtherFile] = Present(<<"O">>)

(***************************************************************************)
(* C14: right after a successful performUndo canUndo is false although the *)
(* backup file is still on disk; a consumed record makes canUndo false     *)
(* with the reason "Backup file was already used", and a performUndo       *)
(* refused for that reason leaves the files and the record as they were.   *)
(***************************************************************************)
C14_NoSecondUndo ==
    /\ [](Consumed => /\ ~canUndo.canUndo
                      /\ canUndo.reason = "Backup file was already used")
    /\ [][UndoSucceeds =>
            /\ ~canUndo'.canUndo
            /\ backupFiles'[undoFile'.backupFilePath].exists ]_vars
    /\ [][lastError'.kind = "Backup file was already used" =>
            /\ Consumed
            /\ files' = files
            /\ undoFile' = undoFile ]_vars

\* C14 witness: the undo ran, its backup file is still there, and a second
\* undo has just been refused
C14_Witness ==
    /\ Consumed
    /\ backupFiles[undoFile.backupFilePath].exists
    /\ lastError.kind = "Backup file was already used"
    /\ files[undoFile.filePath]
           = Present(backupFiles[undoFile.backupFilePath].content)

(***************************************************************************)
(* C15: undo.json is one file holding one record.  Every createBackup call *)
(* replaces whatever it held, armed or consumed, by an armed record of the *)
(* call's file, backup file and discussion; the record, while there is     *)
(* one, describes the latest call, and a successful undo restores from the *)
(* backup of that call.                                                    *)
(***************************************************************************)
C15_SingleUndoSlot ==
    /\ [](undoFile.present =>
            /\ undoFile.filePath = LatestChange.file
            /\ undoFile.discussionId = LatestChange.id
            /\ undoFile.backupFilePath = Len(backupFiles))
    /\ [][Len(backupFiles') = Len(backupFiles) + 1 =>
            undoFile' = undoData(LatestChange'.file, Len(backupFiles'),
                                 LatestChange'.id) ]_vars
    /\ [][UndoSucceeds =>
            /\ undoFile.backupFilePath = Len(backupFiles)
            /\ files'[undoFile.filePath]
                   = Present(backupFiles[Len(backupFiles)].content) ]_vars

\* C15 witness: after a backup of a.js and two of app.js the record is the
\* armed record of the third call
C15_Witness ==
    /\ Len(backupFiles) = 3
    /\ backupFiles[1].content = FixtureContent(2)
    /\ backupFiles[2].content = <<"O">>
    /\ backupFiles[3].content = Fixed(<<"O">>)
    /\ undoFile = undoData(OtherFile, 3, DiscussionIds[2])

C17_RefusedUndoChangesNothing ==
    /\ [][UndoSucceeds => canUndo.canUndo]_vars
    /\ [][lastError' # NoError =>
            /\ ~canUndo.canUndo
            /\ lastError' = Err(canUndo.reason)
            /\ files' = files
            /\ undoFile' = undoFile
            /\ backupFiles' = backupFiles ]_vars

\* C17 witness: the undo was refused because the target file is gone, the
\* armed record and its backup file being still there
C17_Witness ==
    /\ lastError = Err("Original file no longer exists")
    /\ Armed
    /\ BackupOnDisk
    /\ ~TargetOnDisk

(***************************************************************************)
(* C18: whatever createBackup, performUndo, cleanupOldBackups and clearAll *)
(* calls have been made, an armed record names a backup file that exists   *)
(* and holds the content its target file had before the change.            *)
(***************************************************************************)
C18_ArmedRecordHasItsBackup ==
    Armed => /\ BackupOnDisk
             /\ backupFiles[undoFile.backupFilePath].content = fileContent

\* a step of cleanupOldBackups that removes backup files
CleanupRemoves ==
    /\ Len(backupFiles') = Len(backupFiles)
    /\ backupFiles' # backupFiles

\* the backup files on disk dated after the k-th
NewerOnDisk(k) ==
    { j \in 1..Len(backupFiles) :
        backupFiles[j].exists /\ backupMtimes[j] > backupMtimes[k] }

(***************************************************************************)
(* C19: cleanupOldBackups keeps the KeepBackups most recently modified     *)
(* backup files as they are and removes the others, and the backup file of *)
(* an armed record is never among the removed ones, whatever the mtime     *)
(* order of the directory is.                                              *)
(***************************************************************************)
C19_CleanupSparesTheArmedBackup ==
    [][CleanupRemoves =>
         /\ \A k \in 1..Len(backupFiles) :
                backupFiles'[k] =
                    IF Cardinality(NewerOnDisk(k)) < KeepBackups
                    THEN backupFiles[k] ELSE Absent
         /\ Armed /\ BackupOnDisk =>
                backupFiles'[undoFile.backupFilePath].exists
      ]_vars

IdLists ==
    UNION { [1..n -> { DiscussionIds[k] : k \in 1..3 }] : n \in 0..2 }

C21_LedgerRemovalIsIdempotent ==
    /\ [](\A ids \in IdLists :
            LET once == unresolvedDiscussions(discussions, ids)
            IN  /\ unresolvedDiscussions(once, ids) = once
                /\ (\A k \in 1..Len(ids) : ids[k] \notin IdsOf(discussions))
                       => once = discussions)
    /\ [][ledgerWrites' # ledgerWrites =>
            unresolvedDiscussions(ledgerFile'.entries, resolvedDiscussionIds)
                = ledgerFile'.entries ]_vars

\* C21 witness: of two loaded discussions one was resolved and removed
C21_Witness ==
    /\ pc = "done"
    /\ ledgerWrites = 1
    /\ Len(discussions) = 2
    /\ Len(resolvedDiscussionIds) = 1
    /\ Len(ledgerFile.entries) = 1

(***************************************************************************)
(* C22: the ledger update is all or nothing: whenever discussions.json     *)
(* changes, a failed or interrupted update included, what it holds is the  *)
(* complete updated ledger; otherwise it holds what it held before.        *)
(***************************************************************************)
C22_LedgerUpdateIsAtomic ==
    [][ledgerFile' # ledgerFile =>
         ledgerFile' = ValidLedger(unresolvedDiscussions(discussions,
                                       resolvedDiscussionIds)) ]_vars

(***************************************************************************)
(* C23: the load accepts a ledger exactly when every entry has an id, a    *)
(* comment and a non-empty lines array, and then hands the entries on in   *)
(* order with a missing file defaulted; otherwise the run ends at once     *)
(* with an error that names the first offending entry, by index when a     *)
(* required field is missing and by id when its lines are not a non-empty  *)
(* array, and nothing on disk or in the resolver has changed.              *)
(***************************************************************************)
WellFormed(d) ==
    /\ d.id # 0
    /\ d.comment # ""
    /\ d.linesKind = "array"
    /\ Len(d.lines) > 0

LoadFailures ==
    {"ParseDiscussions", "MissingRequiredFields", "InvalidLinesArray"}

C23_LoadValidatesAndFailsFast ==
    /\ [][pc = "load" =>
            LET entries == ledgerFile.entries
                offending == { k \in 1..Len(entries) :
                                 ~WellFormed(entries[k]) }
                first == CHOOSE k \in offending : \A j \in offending : k <= j
            IN  IF ledgerFile.valid /\ offending = {}
                THEN /\ pc' # "fatal"
                     /\ Len(discussions') = Len(entries)
                     /\ \A k \in 1..Len(entries) :
                            /\ discussions'[k].id = entries[k].id
                            /\ discussions'[k].lines = entries[k].lines
                            /\ discussions'[k].file =
                                   IF entries[k].file = "" THEN "app.js"
                                   ELSE entries[k].file
                ELSE /\ pc' = "fatal"
                     /\ lastError'.kind \in LoadFailures
                     /\ ledgerFile.valid =>
                            IF entries[first].id = 0
                               \/ entries[first].comment = ""
                               \/ entries[first].linesKind = "undefined"
                            THEN /\ lastError'.kind = "MissingRequiredFields"
                                 /\ lastError'.index = first - 1
                            ELSE /\ lastError'.kind = "InvalidLinesArray"
                                 /\ lastError'.id = entries[first].id
                     /\ UNCHANGED <<ledgerFile, files, backupFiles,
                                    backupMtimes, undoFile, discussions,
                                    outcome, resolvedDiscussionIds, written,
                                    ledgerWrites, summary>> ]_vars
    /\ [][pc # "fatal"]_vars
    /\ [](pc = "fatal" /\ lastError.kind \in LoadFailures =>
            /\ discussions = << >>
            /\ outcome = << >>
            /\ written = {}
            /\ backupFiles = << >>
            /\ undoFile = NoUndo
            /\ ledgerWrites = 0)

\* C23 witness: the first entry has a number for lines and the second one
\* has no comment; the run ended on the first, named by its id
C23_Witness ==
    /\ pc = "fatal"
    /\ lastError = ParseError("InvalidLinesArray", 0, DiscussionIds[1])
    /\ Len(ledgerFile.entries) = 2
    /\ ledgerFile.entries[1].linesKind = "scalar"
    /\ ledgerFile.entries[2].comment = ""
    /\ discussions = << >>

(***************************************************************************)
(* Vocabulary of the progress properties.                                  *)
(***************************************************************************)
\* the ledger was loaded: parseDiscussions has returned
Loaded == pc # "load" /\ ~(pc = "fatal" /\ lastError.kind = "ParseDiscussions")

\* every approval request gets its decision
DecisionsCome == []<>(pc # "approval")

Terminated == pc \in {"done", "fatal"}

\* displaySummary has printed the counters of the run
SummaryReported ==
    /\ summary.shown
    /\ summary.processed = processedCount
    /\ summary.applied = appliedCount
    /\ summary.skipped = skippedCount

(***************************************************************************)
(* C24 as stated: decisions being given, every run whose ledger load       *)
(* succeeded eventually displays the summary with the processed, applied   *)
(* and skipped counts of the run.                                          *)
(***************************************************************************)
C24_SummaryAlwaysReported == DecisionsCome => [](Loaded => <>SummaryReported)

(***************************************************************************)
(* C24 amended: decisions being given, every run that loaded at least one  *)
(* discussion eventually displays the summary with the counts of the run,  *)
(* whatever the outcomes of the discussions, unless the write of the       *)
(* ledger fails and aborts the run.                                        *)
(***************************************************************************)
C24_SummaryReportedUnlessPersistFails ==
    DecisionsCome =>
        [](Loaded /\ Len(discussions) > 0 =>
               <>(SummaryReported
                      \/ (pc = "fatal" /\ lastError.kind = "LedgerWrite")))

\* C24 witness: the first discussion errored, the second was applied and
\* the summary shows both
C24_Witness ==
    /\ pc = "done"
    /\ outcome = <<"Errored", "Applied">>
    /\ summary = [shown |-> TRUE, processed |-> 2, applied |-> 1,
                  skipped |-> 1]

(***************************************************************************)
(* C25: every awaited call returning or throwing, a run either waits for   *)
(* an approval decision for ever or reaches its end with every loaded      *)
(* discussion applied, skipped or errored; so it terminates when every     *)
(* approval request gets its decision.  While the run waits at the prompt  *)
(* nothing changes: the only step taken there is the decision.             *)
(***************************************************************************)
C25_TerminatesUnlessAwaitingApproval ==
    /\ DecisionsCome =>
           <>(/\ Terminated
              /\ \A k \in 1..Len(discussions) : outcome[k] \in Terminal)
    /\ <>[](pc = "approval") \/ <>Terminated
    /\ [][pc = "approval" =>
            /\ pc' # "approval"
            /\ outcome'[idx] \in {"Skipped", "Applied"} \/ pc' = "backup" ]_vars

\* C25 witness: two decisions were given, a rejection and an acceptance,
\* and the run has ended
C25_Witness ==
    /\ Terminated
    /\ Len(discussions) = 2
    /\ outcome = <<"Skipped", "Applied">>

(***************************************************************************)
(* The remote context provider: GitHubCodeProvider.getCodeContext,         *)
(* GitHubIntegration.getCodeContextForReview and extractCodeFromPatch.     *)
(* A patch is text, one character per element; its lines are what          *)
(* split('\n') makes of it.                                                *)
(***************************************************************************)
\* the longest patch, in lines
MaxPatchLines == 4

\* a JavaScript value that is a string, null or undefined
Null == [isNull |-> TRUE, text |-> << >>]

Str(text) == [isNull |-> FALSE, text |-> text]

\* !value
Falsy(value) == value.isNull \/ value.text = << >>

\* String.prototype.startsWith
StartsWith(str, prefix) ==
    /\ Len(str) >= Len(prefix)
    /\ SubSeq(str, 1, Len(prefix)) = prefix

\* the literal lit stands in str at position p (1-based)
LiteralAt(str, p, lit) ==
    /\ p + Len(lit) - 1 <= Len(str)
    /\ SubSeq(str, p, p + Len(lit) - 1) = lit

\* String.prototype.includes
Includes(str, lit) == \E p \in 1..Len(str) : LiteralAt(str, p, lit)

DigitChars == <<"0", "1", "2", "3", "4", "5", "6", "7", "8", "9">>

IsDigit(c) == \E n \in 1..10 : DigitChars[n] = c

DigitValue(c) == (CHOOSE n \in 1..10 : DigitChars[n] = c) - 1

\* /@@ -(\d+),?\d* \+(\d+),?\d* @@/ tried at position p of the line: the
\* expression is read left to right, at being the place reached in it and
\* old and new the digits of the two groups read so far
HunkHeaderAt(line, p) ==
    LET RECURSIVE read(_, _, _, _)
        read(k, at, old, new) ==
            IF at = "matched"
            THEN [matched |-> TRUE, oldStart |-> old, newStart |-> new]
            ELSE IF k > Len(line)
            THEN [matched |-> FALSE, oldStart |-> 0, newStart |-> 0]
            ELSE IF at = "@@ -" /\ LiteralAt(line, k, <<"@", "@", " ", "-">>)
            THEN read(k + 4, "-(", old, new)
            ELSE IF at \in {"-(", "-(\\d+"} /\ IsDigit(line[k])
            THEN read(k + 1, "-(\\d+", old * 10 + DigitValue(line[k]), new)
            ELSE IF at = "-(\\d+" /\ line[k] = ","
            THEN read(k + 1, "-(\\d+),?\\d*", old, new)
            ELSE IF at = "-(\\d+),?\\d*" /\ IsDigit(line[k])
            THEN read(k + 1, at, old, new)
            ELSE IF /\ at \in {"-(\\d+", "-(\\d+),?\\d*"}
                    /\ LiteralAt(line, k, <<" ", "+">>)
            THEN read(k + 2, "+(", old, new)
            ELSE IF at \in {"+(", "+(\\d+"} /\ IsDigit(line[k])
            THEN read(k + 1, "+(\\d+", old, new * 10 + DigitValue(line[k]))
            ELSE IF at = "+(\\d+" /\ line[k] = ","
            THEN read(k + 1, "+(\\d+),?\\d*", old, new)
            ELSE IF at = "+(\\d+),?\\d*" /\ IsDigit(line[k])
            THEN read(k + 1, at, old, new)
            ELSE IF /\ at \in {"+(\\d+", "+(\\d+),?\\d*"}
                    /\ LiteralAt(line, k, <<" ", "@", "@">>)
            THEN read(k + 3, "matched", old, new)
            ELSE [matched |-> FALSE, oldStart |-> 0, newStart |-> 0]
    IN  read(p, "@@ -", 0, 0)

\* the match at the leftmost of the positions at which the line matches
LeftmostMatch(line, at) ==
    IF at = {} THEN [matched |-> FALSE, oldStart |-> 0, newStart |-> 0]
    ELSE HunkHeaderAt(line, CHOOSE p \in at : \A q \in at : p <= q)

\* line.match(/@@ -(\d+),?\d* \+(\d+),?\d* @@/) with parseInt of its two
\* groups
HunkHeader(line) ==
    LeftmostMatch(line,
                  { p \in 1..Len(line) : HunkHeaderAt(line, p).matched })

IsHunkLine(line) == StartsWith(line, <<"@", "@">>)

IsFileHeader(line) ==
    \/ StartsWith(line, <<"-", "-", "-">>)
    \/ StartsWith(line, <<"+", "+", "+">>)

\* line.charAt(0)
LineType(line) == IF Len(line) = 0 THEN "" ELSE line[1]

\* currentOldLine after a line that is no header
OldLineAfter(line, currentOldLine) ==
    IF LineType(line) = "+" THEN currentOldLine ELSE currentOldLine + 1

\* currentNewLine after a line that is no header
NewLineAfter(line, currentNewLine) ==
    IF LineType(line) = "-" THEN currentNewLine ELSE currentNewLine + 1

\* currentOldLine after a line that starts with '@@'
OldLineAtHeader(match, currentOldLine) ==
    IF match.matched THEN match.oldStart ELSE currentOldLine

\* currentNewLine after a line that starts with '@@'
NewLineAtHeader(match, currentNewLine) ==
    IF match.matched THEN match.newStart ELSE currentNewLine

\* a loop that counts file headers as context lines
targetFound_countsFileHeaders(lines, targetLine) ==
    LET RECURSIVE loop(_, _, _)
        loop(i, currentOldLine, currentNewLine) ==
            IF i >= Len(lines) THEN -1
            ELSE IF IsHunkLine(lines[i + 1])
            THEN loop(i + 1,
                      OldLineAtHeader(HunkHeader(lines[i + 1]),
                                      currentOldLine),
                      NewLineAtHeader(HunkHeader(lines[i + 1]),
                                      currentNewLine))
            ELSE IF \/ currentNewLine + 1 = targetLine
                    \/ currentOldLine + 1 = targetLine
            THEN i
            ELSE loop(i + 1, currentOldLine + 1, currentNewLine + 1)
    IN  loop(0, 0, 0)

\* the loop of extractCodeFromPatch up to its break: the 0-based index i of
\* the line at which targetFound is set, or -1
targetFound(lines, targetLine) ==
    LET RECURSIVE loop(_, _, _)
        loop(i, currentOldLine, currentNewLine) ==
            IF i >= Len(lines) THEN -1
            ELSE IF IsHunkLine(lines[i + 1])
            THEN loop(i + 1,
                      OldLineAtHeader(HunkHeader(lines[i + 1]),
                                      currentOldLine),
                      NewLineAtHeader(HunkHeader(lines[i + 1]),
                                      currentNewLine))
            ELSE IF IsFileHeader(lines[i + 1])
            THEN loop(i + 1, currentOldLine, currentNewLine)
            ELSE IF \/ NewLineAfter(lines[i + 1], currentNewLine) = targetLine
                    \/ OldLineAfter(lines[i + 1], currentOldLine) = targetLine
            THEN i
            ELSE loop(i + 1, OldLineAfter(lines[i + 1], currentOldLine),
                      NewLineAfter(lines[i + 1], currentNewLine))
    IN  loop(0, 0, 0)

\* the lines pushed to extractedLines around index i
extractedLines(lines, i, contextLines) ==
    SelectSeq(Slice(lines, MaxOf(0, i - contextLines),
                    MinOf(Len(lines), i + contextLines + 1)),
              LAMBDA contextLine :
                  ~IsHunkLine(contextLine) /\ ~IsFileHeader(contextLine))

\* what extractCodeFromPatch returns when its loop ended with index i
ExtractedAt(lines, i, contextLines) ==
    IF i = -1 THEN Null
    ELSE Str(Join(extractedLines(lines, i, contextLines)))

\* extractCodeFromPatch on the lines of the patch
ExtractedFrom(lines, targetLine, contextLines) ==
    ExtractedAt(lines, targetFound(lines, targetLine), contextLines)

\* GitHubIntegration.extractCodeFromPatch
extractCodeFromPatch(patch, targetLine, contextLines) ==
    IF Falsy(patch) THEN Null
    ELSE ExtractedFrom(Split(patch.text), targetLine, contextLines)

\* the raw-file window that starts at the target line
rawFileWindow_fromTargetLine(fullContent, lineNumber) ==
    LET lines == Split(fullContent)
    IN  Join(Slice(lines, MaxOf(0, lineNumber - 1),
                   MinOf(Len(lines), lineNumber + 2)))

\* getCodeContextForReview: the window taken from the full file content
rawFileWindow(fullContent, lineNumber) ==
    LET lines == Split(fullContent)
        start == MaxOf(0, lineNumber - 3)
        end   == MinOf(Len(lines), lineNumber + 2)
    IN  Join(Slice(lines, start, end))

\* the contextLines getCodeContextForReview hands to extractCodeFromPatch
ContextRadius == 2

\* getCodeContextForReview: the fallback to the full file content when the
\* patch gave no codeContext
WithRawFallback(targetFile, lineNumber, fromPatch) ==
    IF /\ Falsy(fromPatch)
       /\ targetFile.rawUrl
       /\ ~Falsy(targetFile.rawContent)
    THEN Str(rawFileWindow(targetFile.rawContent.text, lineNumber))
    ELSE fromPatch

\* GitHubIntegration.getCodeContextForReview, targetFile being the file of
\* the pull request that matches fileName, if any
getCodeContextForReview(targetFile, lineNumber) ==
    IF ~targetFile.found
    THEN [ok |-> FALSE, error |-> Err("FileNotInPR"), codeContext |-> Null]
    ELSE [ok |-> TRUE, error |-> NoError,
          codeContext |->
              WithRawFallback(targetFile, lineNumber,
                  extractCodeFromPatch(targetFile.patch, lineNumber,
                                       ContextRadius))]

\* GitHubCodeProvider.getCodeContext: what it makes of the context it got
\* for lineNumber
ProvidedContext(lineNumber, context) ==
    IF ~context.ok
    THEN [ok |-> FALSE, error |-> context.error, context |-> NoContext]
    ELSE IF Falsy(context.codeContext)
    THEN [ok |-> FALSE, error |-> Err("NoCodeContext"),
          context |-> NoContext]
    ELSE [ok |-> TRUE, error |-> NoError,
          context |-> [source |-> "github-pr-diff",
                       codeContext |-> context.codeContext.text,
                       lineNumber |-> lineNumber]]

\* GitHubCodeProvider.getCodeContext
githubGetCodeContext(discussion) ==
    ProvidedContext(discussion.lines[1],
                    getCodeContextForReview(discussion.pr,
                                            discussion.lines[1]))

IsSpace(c) == c = " " \/ c = NL

\* String.prototype.trim
RECURSIVE Trim(_)
Trim(str) ==
    IF str = << >> THEN str
    ELSE IF IsSpace(str[1]) THEN Trim(Tail(str))
    ELSE IF IsSpace(str[Len(str)]) THEN Trim(SubSeq(str, 1, Len(str) - 1))
    ELSE str

\* createEnhancedOpenAIPrompt: the clean-up of the extracted code
cleanCode(extractedCode) ==
    IF \/ Includes(extractedCode, <<"@", "@">>)
       \/ StartsWith(extractedCode, <<"+">>)
       \/ StartsWith(extractedCode, <<"-">>)
    THEN LET kept == SelectSeq(Split(extractedCode), LAMBDA line :
                         ~IsHunkLine(line) /\ ~IsFileHeader(line))
             cleanedLines ==
                 [k \in 1..Len(kept) |->
                     IF LineType(kept[k]) \in {"+", "-", " "}
                     THEN Tail(kept[k]) ELSE kept[k]]
         IN  Trim(Join(cleanedLines))
    ELSE extractedCode

(***************************************************************************)
(* The context step on pull-request files: a ledger of one discussion with *)
(* remote provenance, and what the review system serves for its file.      *)
(***************************************************************************)
\* "@@ -10,3 +10,4 @@"
HunkA == <<"@", "@", " ", "-", "1", "0", ",", "3", " ",
           "+", "1", "0", ",", "4", " ", "@", "@">>

\* "@@ -1 +2 @@"
HunkB == <<"@", "@", " ", "-", "1", " ", "+", "2", " ", "@", "@">>

\* "+++ b"
NewFileHeader == <<"+", "+", "+", " ", "b">>

HunkHeaders == { HunkA, HunkB }

\* the lines a patch is made of: hunk headers, a file header, and a context,
\* an added and a removed line
PatchLineTexts ==
    HunkHeaders \cup { NewFileHeader, <<" ", "a">>, <<"+", "b">>, <<"-", "c">> }

\* the patches of at most MaxPatchLines lines; a patch opens with a hunk header
Patches ==
    { Join(p) : p \in { q \in UNION { [1..n -> PatchLineTexts] :
                                        n \in 1..MaxPatchLines } :
                            q[1] \in HunkHeaders } }

\* the file at the raw-content URL
RemoteFile == FixtureContent(5)

NotInPR == [found |-> FALSE, patch |-> Null, rawUrl |-> FALSE,
            rawContent |-> Null]

\* a file of the pull request: its patch if it has one, whether it has a
\* raw-content URL, and what fetchFileContent gets from that URL
PRFiles ==
    { NotInPR } \cup
    { [found |-> TRUE, patch |-> patch, rawUrl |-> raw[1],
       rawContent |-> raw[2]] :
          patch \in { Null } \cup { Str(p) : p \in Patches },
          raw \in { <<FALSE, Null>>, <<TRUE, Null>>,
                    <<TRUE, Str(RemoteFile)>> } }

\* line numbers in and out of the hunks and of the remote file, in both orders
PatchLineArrays == { <<2>>, <<4>>, <<11>>, <<3, 2>>, <<12, 11>> }

\* a discussion with source.owner / source.repo / source.pr, together with
\* the pull-request file the review system serves for it
PatchDiscussion(id, lines, pr) ==
    [id |-> id, file |-> TargetFile, lines |-> lines, remote |-> TRUE,
     pr |-> pr]

InitPatch ==
    /\ FreshResolver
    /\ ledgerFile \in
           { ValidLedger(<<PatchDiscussion(DiscussionIds[1], la, pr)>>) :
                 la \in PatchLineArrays, pr \in PRFiles }
    /\ files = [f \in FileNames |->
                   IF f = TargetFile THEN Present(FixtureContent(MaxFileLines))
                   ELSE Present(<<"O">>)]

\* processDiscussion: getCodeContext for a discussion the provider can serve
GetPatchContext ==
    /\ pc = "ctx"
    /\ Current.remote
    /\ LET got == githubGetCodeContext(Current)
       IN  IF got.ok
           THEN /\ codeContext' = got.context
                /\ Proceed("ai")
                /\ UNCHANGED <<suggestedFix, fileContent>>
           ELSE Catch(got.error)
    /\ UNCHANGED <<backupFiles, backupMtimes, undoFile>>

\* the run up to the end of the context step
NextPatch ==
    \/ LoadLedger
    \/ GetPatchContext

SpecPatch == InitPatch /\ [][NextPatch]_vars

(***************************************************************************)
(* C26..C30: the patch mapper and the remote context provider.             *)
(***************************************************************************)
\* the lines of the patch served for the current discussion
PatchLinesOf(d) == Split(d.pr.patch.text)

IsBodyLine(line) == ~IsHunkLine(line) /\ ~IsFileHeader(line)

\* the numbers after a line, given the numbers before it
NumbersPast(line, header, before) ==
    IF IsHunkLine(line)
    THEN IF header.matched
         THEN [old |-> header.oldStart, new |-> header.newStart]
         ELSE before
    ELSE IF IsFileHeader(line) THEN before
    ELSE [old |-> IF LineType(line) = "+" THEN before.old
                  ELSE before.old + 1,
          new |-> IF LineType(line) = "-" THEN before.new
                  ELSE before.new + 1]

\* the old-side and new-side numbers the next body line after the first k
\* lines carries: a hunk header sets them to its a and b, a removed line uses
\* up an old-side number, an added line a new-side number, a context line both
RECURSIVE NumbersAfter(_, _)
NumbersAfter(lines, k) ==
    IF k = 0 THEN [old |-> 0, new |-> 0]
    ELSE NumbersPast(lines[k], HunkHeader(lines[k]),
                     NumbersAfter(lines, k - 1))

\* body line k is line t of the old or of the new file
CarriesNumber(lines, k, t) ==
    /\ IsBodyLine(lines[k])
    /\ \/ LineType(lines[k]) # "+" /\ NumbersAfter(lines, k - 1).old = t
       \/ LineType(lines[k]) # "-" /\ NumbersAfter(lines, k - 1).new = t

\* the 1-based position of the first line of the patch that is line t, or 0
LineNumbered(lines, t) ==
    LET at == { k \in 1..Len(lines) : CarriesNumber(lines, k, t) }
    IN  IF at = {} THEN 0 ELSE CHOOSE k \in at : \A q \in at : k <= q

\* the context step is taken for a discussion whose file has a patch
MapsPatch ==
    /\ pc = "ctx"
    /\ pc' # "ctx"
    /\ Current.pr.found
    /\ ~Falsy(Current.pr.patch)

\* C26: when the mapper is run on a patch, the line it matches for target
\* line t is the first body line whose old-side or new-side number is t, the
\* numbers starting at a and b on the first body line after a header
\* @@ -a,.. +b,.. @@; it matches nothing when no line is numbered t.
C26_TargetMatchesLineNumbered ==
    [][MapsPatch =>
          targetFound(PatchLinesOf(Current), Current.lines[1]) + 1
              = LineNumbered(PatchLinesOf(Current), Current.lines[1])]_vars

\* a patch line without its diff marker
Unmarked(line) ==
    IF LineType(line) \in {"+", "-", " "} THEN Tail(line) ELSE line

\* the body lines among the r lines before position k, line k and the r lines
\* after it, cut at the ends of the patch, each without its marker
UnmarkedWindow(lines, k, r) ==
    LET from == MaxOf(1, k - r)
        to == MinOf(Len(lines), k + r)
        body == SelectSeq(SubSeq(lines, from, to), IsBodyLine)
    IN  Join([j \in 1..Len(body) |-> Unmarked(body[j])])

\* the context step is taken on a patch in which the mapper finds the target
MapperMatches ==
    /\ MapsPatch
    /\ targetFound(PatchLinesOf(Current), Current.lines[1]) >= 0

\* C27: when the mapper matches a line, the context obtained is the window
\* of radius r around that line, made of the patch lines that are no hunk or
\* file header, each without its leading '+', '-' or ' '; the markers are
\* gone from the context itself or at the latest from the code the prompt
\* builder makes of it.
C27_WindowIsUnmarked ==
    [][MapperMatches =>
          LET k == targetFound(PatchLinesOf(Current), Current.lines[1]) + 1
              window == UnmarkedWindow(PatchLinesOf(Current), k, ContextRadius)
          IN  /\ pc' = "ai"
              /\ \/ codeContext'.codeContext = window
                 \/ cleanCode(codeContext'.codeContext) = window]_vars

\* the context step is taken for a discussion with remote provenance and
\* yields a context
RemoteContextObtained ==
    /\ pc = "ctx"
    /\ Current.remote
    /\ pc' = "ai"

\* C28: the context a discussion with remote provenance obtains is taken at
\* target line min(discussion.lines), whatever the order of the lines array,
\* and the mapper is run with radius 2.
C28_TargetIsSmallestLine ==
    /\ [][RemoteContextObtained =>
             codeContext'.lineNumber = ArrMin(Current.lines)]_vars
    /\ [](ContextRadius = 2)

\* what the pull request yields for discussion d: nothing from the patch and
\* nothing from the raw file
RemoteYieldsNothing(d) ==
    /\ d.pr.found
    /\ Falsy(extractCodeFromPatch(d.pr.patch, d.lines[1], ContextRadius))
    /\ ~d.pr.rawUrl \/ Falsy(d.pr.rawContent)

\* C29: when neither the patch nor the raw file of the pull request yields
\* anything for a discussion with remote provenance, the context step reads
\* the local file instead: the discussion goes on with the context the local
\* file gives and is not marked as errored.
C29_FallsBackToLocalFile ==
    [][pc = "ctx" /\ pc' # "ctx" /\ Current.remote
           /\ RemoteYieldsNothing(Current)
           /\ getLocalCodeContext(Current).ok
       => /\ pc' = "ai"
          /\ codeContext' = getLocalCodeContext(Current).context
          /\ outcome'[idx] # "Errored"]_vars

\* the lines of a file at the 0-based indices j with t - 3 <= j < t + 2 that
\* the file has, joined
FullFileWindow(content, t) ==
    LET lines == Split(content)
        within == { j \in 0..(Len(lines) - 1) : t - 3 <= j /\ j < t + 2 }
    IN  Join([n \in 1..Cardinality(within) |->
                 lines[n + CHOOSE j \in within : \A q \in within : j <= q]])

\* the context step is taken where the mapper finds nothing and the file
\* fetched from the raw-content URL has something around the target line
FallsBackToRawFile ==
    /\ pc = "ctx"
    /\ pc' # "ctx"
    /\ Current.remote
    /\ Current.pr.found
    /\ extractCodeFromPatch(Current.pr.patch, Current.lines[1],
                            ContextRadius).isNull
    /\ Current.pr.rawUrl
    /\ ~Falsy(Current.pr.rawContent)
    /\ FullFileWindow(Current.pr.rawContent.text, Current.lines[1]) # << >>

\* C30: when the mapper returns NotFound for the target line it was given
\* and the raw-content URL gives the file, the context is the window of the
\* file's lines at 0-based indices [targetLine - 3, targetLine + 2) that
\* exist, and the discussion goes on to the suggestion without being marked
\* as errored.
C30_NotFoundFallsBackToRawWindow ==
    [][FallsBackToRawFile =>
          /\ pc' = "ai"
          /\ codeContext' =
                 [source |-> "github-pr-diff",
                  codeContext |-> FullFileWindow(Current.pr.rawContent.text,
                                                 Current.lines[1]),
                  lineNumber |-> Current.lines[1]]
          /\ outcome' = outcome
          /\ skippedCount' = skippedCount]_vars

\* a discussion on line 4 whose patch has no line 4 obtained lines 2..5 of
\* the five-line remote file
C30_Witness ==
    /\ pc = "ai"
    /\ discussions[1].lines = <<4>>
    /\ ~Falsy(discussions[1].pr.patch)
    /\ extractCodeFromPatch(discussions[1].pr.patch, 4, ContextRadius).isNull
    /\ codeContext.codeContext = <<"L2", NL, "L3", NL, "L4", NL, "L5">>
    /\ outcome = <<"Pending">>

(***************************************************************************)
(* getCodeContextForReview: finding the file of the pull request.  A path  *)
(* is text, one character per element; the listing is what fetchPRFiles    *)
(* returns, in the order of its keys.                                      *)
(***************************************************************************)
\* the longest path, in characters
MaxPathLen == 3

\* the most files a pull request lists
MaxListed == 2

\* path.basename: what follows the last '/'
basename(filePath) ==
    LET slashes == { k \in 1..Len(filePath) : filePath[k] = "/" }
    IN  IF slashes = {} THEN filePath
        ELSE SubSeq(filePath,
                    (CHOOSE k \in slashes : \A q \in slashes : q <= k) + 1,
                    Len(filePath))

\* the first file of the listing that passes the test, if any
FirstListed(prFiles, Test(_)) ==
    LET hits == { k \in 1..Len(prFiles) : Test(prFiles[k].filename) }
    IN  IF hits = {} THEN NotInPR
        ELSE prFiles[CHOOSE k \in hits : \A q \in hits : k <= q]

\* a lookup that takes the first listed file that matches in any way
findTargetFile_firstOfAnyKind(prFiles, fileName) ==
    FirstListed(prFiles, LAMBDA fullPath :
        \/ fullPath = fileName
        \/ basename(fullPath) = basename(fileName)
        \/ Includes(fullPath, fileName)
        \/ Includes(fileName, basename(fullPath)))

\* getCodeContextForReview: exact filename match, then basename matching,
\* then pattern matching
findTargetFile(prFiles, fileName) ==
    LET exact == FirstListed(prFiles, LAMBDA fullPath : fullPath = fileName)
        byBasename == FirstListed(prFiles, LAMBDA fullPath :
                          basename(fullPath) = basename(fileName))
        byPattern == FirstListed(prFiles, LAMBDA fullPath :
                         \/ Includes(fullPath, fileName)
                         \/ Includes(fileName, basename(fullPath)))
    IN  IF exact.found THEN exact
        ELSE IF byBasename.found THEN byBasename
        ELSE byPattern

\* the names a path is made of
PathNames(n) == UNION { [1..k -> {"a", "b"}] : k \in 1..n }

\* the paths of at most MaxPathLen characters: a name, or a directory and a
\* name
Paths ==
    PathNames(MaxPathLen) \cup
    { p \in { dir \o <<"/">> \o name :
                  dir \in PathNames(MaxPathLen - 2),
                  name \in PathNames(MaxPathLen - 2) } :
          Len(p) <= MaxPathLen }

\* the discussion's file: a bare name and a path with a directory
AskedFiles == { <<"a">>, <<"b", "/", "a">> }

\* a listed file: no patch, and a raw-content URL that serves RemoteFile
ListedFile(fullPath) ==
    [found |-> TRUE, filename |-> fullPath, patch |-> Null, rawUrl |-> TRUE,
     rawContent |-> Str(RemoteFile)]

\* the listings of at most MaxListed files; the paths of a listing differ
Listings ==
    { [k \in 1..Len(l) |-> ListedFile(l[k])] :
          l \in { q \in UNION { [1..n -> Paths] : n \in 0..MaxListed } :
                      \A i, j \in 1..Len(q) : i # j => q[i] # q[j] } }

\* a discussion with source.owner / source.repo / source.pr on line 3 of
\* file, together with the files the pull request lists
ListedDiscussion(id, file, prFiles) ==
    [id |-> id, file |-> file, lines |-> <<3>>, remote |-> TRUE,
     prFiles |-> prFiles]

InitLookup ==
    /\ FreshResolver
    /\ ledgerFile \in
           { ValidLedger(<<ListedDiscussion(DiscussionIds[1], f, l)>>) :
                 f \in AskedFiles, l \in Listings }
    /\ files = [f \in FileNames |-> Present(<<"O">>)]

\* processDiscussion: getCodeContext for a discussion the provider can
\* serve, the file being looked up in the listing
GetListedContext ==
    /\ pc = "ctx"
    /\ Current.remote
    /\ \E targetFile \in { findTargetFile(Current.prFiles, Current.file) } :
       \E served \in { PatchDiscussion(Current.id, Current.lines,
                                       targetFile) } :
           LET got == githubGetCodeContext(served)
           IN  IF got.ok
               THEN /\ codeContext' =
                           [source |-> got.context.source,
                            codeContext |-> got.context.codeContext,
                            lineNumber |-> got.context.lineNumber,
                            fileInfo |-> targetFile.filename]
                    /\ Proceed("ai")
                    /\ UNCHANGED <<suggestedFix, fileContent>>
               ELSE Catch(got.error)
    /\ UNCHANGED <<backupFiles, backupMtimes, undoFile>>

\* the run up to the end of the context step
NextLookup ==
    \/ LoadLedger
    \/ GetListedContext

SpecLookup == InitLookup /\ [][NextLookup]_vars

\* C31 vocabulary: how a listed path matches the file name asked for
MatchKind(fullPath, fileName) ==
    IF fullPath = fileName THEN 1
    ELSE IF basename(fullPath) = basename(fileName) THEN 2
    ELSE IF \/ Includes(fullPath, fileName)
            \/ Includes(fileName, basename(fullPath)) THEN 3
    ELSE 4

\* position k of the listing holds the best match, and the first of its kind
BestMatchAt(prFiles, fileName, k) ==
    /\ MatchKind(prFiles[k].filename, fileName) < 4
    /\ \A q \in 1..Len(prFiles) :
           /\ MatchKind(prFiles[q].filename, fileName)
                  >= MatchKind(prFiles[k].filename, fileName)
           /\ (MatchKind(prFiles[q].filename, fileName)
                  = MatchKind(prFiles[k].filename, fileName)) => q >= k

\* C31: the context of a remote discussion is taken from the listed file
\* that matches its file name best (exact path before basename before
\* substring either way), the first in listing order among equals, and the
\* lookup fails only when no listed file matches in any of these ways.
C31_LookupByPriority ==
    [][pc = "ctx" /\ pc' # "ctx" /\ Current.remote =>
          IF \E k \in 1..Len(Current.prFiles) :
                 MatchKind(Current.prFiles[k].filename, Current.file) < 4
          THEN /\ pc' = "ai"
               /\ \E k \in 1..Len(Current.prFiles) :
                      /\ BestMatchAt(Current.prFiles, Current.file, k)
                      /\ codeContext'.fileInfo = Current.prFiles[k].filename
          ELSE /\ outcome'[idx] = "Errored"
               /\ lastError' = Err("FileNotInPR")]_vars

\* asked for "a" with "b/a" listed before "a": the exact match, listed
\* second, was taken
C31_Witness ==
    /\ pc = "ai"
    /\ discussions[1].file = <<"a">>
    /\ Len(discussions[1].prFiles) = 2
    /\ discussions[1].prFiles[1].filename = <<"b", "/", "a">>
    /\ discussions[1].prFiles[2].filename = <<"a">>
    /\ codeContext.fileInfo = <<"a">>

\* body line k has the target as its old-side or new-side counter once it is
\* counted
CountedAs(lines, k, t) ==
    /\ IsBodyLine(lines[k])
    /\ \/ NumbersAfter(lines, k).old = t
       \/ NumbersAfter(lines, k).new = t

\* the raw lines of the patch from r before position k to r after it that
\* are no headers, joined
RawWindow(lines, k, r) ==
    Join(SelectSeq(SubSeq(lines, MaxOf(1, k - r), MinOf(Len(lines), k + r)),
                   IsBodyLine))

\* the lines of the patch that are no file headers
WithoutFileHeaders(lines) ==
    SelectSeq(lines, LAMBDA line : ~IsFileHeader(line))

\* C32: run on a patch, extractCodeFromPatch returns null exactly when no
\* body line has the target as a counter after being counted; otherwise it
\* returns the window around the first such line, and the lines of the patch
\* after that window do not matter; dropping the '---' and '+++' lines from
\* the patch leaves the matched line the same.  A match gives the discussion
\* that window as its context.
C32_NotFoundIffNoCountedLine ==
    [][MapsPatch =>
          LET lines == PatchLinesOf(Current)
              t == Current.lines[1]
              hits == { k \in 1..Len(lines) : CountedAs(lines, k, t) }
              first == CHOOSE k \in hits : \A q \in hits : k <= q
              got == extractCodeFromPatch(Current.pr.patch, t, ContextRadius)
          IN  /\ got.isNull <=> hits = {}
              /\ targetFound(WithoutFileHeaders(lines), t) =
                     IF hits = {} THEN -1
                     ELSE Len(WithoutFileHeaders(SubSeq(lines, 1, first))) - 1
              /\ hits # {} =>
                     /\ got = Str(RawWindow(lines, first, ContextRadius))
                     /\ \A m \in 1..Len(lines) :
                            m >= first + ContextRadius =>
                                ExtractedFrom(SubSeq(lines, 1, m), t,
                                              ContextRadius) = got
                     /\ pc' = "ai"
                     /\ codeContext'.codeContext = got.text]_vars

\* a line counted as 11 stands in the first hunk and another in the second:
\* the context is the window around the first, which reaches the second
C32_Witness ==
    /\ pc = "ai"
    /\ discussions[1].lines = <<11>>
    /\ ~Falsy(discussions[1].pr.patch)
    /\ PatchLinesOf(discussions[1]) =
           <<HunkA, <<"+", "b">>, HunkA, <<"-", "c">> >>
    /\ codeContext.codeContext = <<"+", "b", NL, "-", "c">>

(***************************************************************************)
(* C33..C37: what the run and the undo leave on disk.                      *)
(***************************************************************************)
\* the suggestion for a discussion whose context came from the pull request
\* is accepted
AcceptsRemoteSuggestion ==
    /\ pc = "approval"
    /\ codeContext.source = "github-pr-diff"
    /\ outcome'[idx] = "Applied"

\* C33: accepting the suggestion for a discussion whose context came from a
\* pull-request diff writes no source file, makes no backup and leaves the
\* undo record as it was, yet counts the discussion as applied and records
\* its id as resolved; once the run has completed, the id is off the ledger.
C33_RemoteAcceptanceTouchesNoFile ==
    /\ [][AcceptsRemoteSuggestion =>
             /\ files' = files
             /\ written' = written
             /\ backupFiles' = backupFiles
             /\ backupMtimes' = backupMtimes
             /\ undoFile' = undoFile
             /\ ledgerFile' = ledgerFile
             /\ appliedCount' = appliedCount + 1
             /\ skippedCount' = skippedCount
             /\ resolvedDiscussionIds'
                    = Append(resolvedDiscussionIds, Current.id)]_vars
    /\ [](pc = "done" =>
             \A k \in 1..Len(discussions) :
                 (discussions[k].remote /\ outcome[k] = "Applied") =>
                     /\ discussions[k].id \notin IdsOf(ledgerFile.entries)
                     /\ \A w \in written : w.position # k)

\* a local fix was applied and armed the undo record, then a remote
\* suggestion was accepted: the record is still that of the local fix, one
\* file was written and both ids are off the ledger
C33_Witness ==
    /\ pc = "done"
    /\ Len(discussions) = 2
    /\ ~discussions[1].remote
    /\ discussions[2].remote
    /\ outcome = <<"Applied", "Applied">>
    /\ appliedCount = 2
    /\ undoFile.present
    /\ undoFile.discussionId = discussions[1].id
    /\ Len(backupFiles) = 1
    /\ Cardinality(written) = 1
    /\ ledgerFile = ValidLedger(<< >>)

\* the discussions whose fix has been written to its target file
WrittenDiscussions == { discussions[w.position] : w \in written }

\* C34 as stated: at every point of a run, no discussion whose fix has been
\* written to its target file is in the persisted ledger.
C34_WrittenFixesNeverInLedger ==
    \A d \in WrittenDiscussions : d.id \notin IdsOf(ledgerFile.entries)

\* C34 as amended: a discussion whose fix has been written leaves the
\* persisted ledger with the ledger update at the end of the run and not
\* before: until that update it is still an entry of the ledger (so it is
\* after an interrupt or a fatal error that comes before the update), and
\* from the update on it is not.
C34_WrittenFixesLeaveLedgerAtTheUpdate ==
    \A d \in WrittenDiscussions :
        /\ (ledgerWrites = 0 /\ ledgerFile.valid) =>
               \E k \in 1..Len(ledgerFile.entries) : ledgerFile.entries[k] = d
        /\ ledgerWrites > 0 =>
               /\ ledgerFile.valid
               /\ d.id \notin IdsOf(ledgerFile.entries)

\* the ledger update failed after two discussions, the second of which had
\* its fix written: the run ended with a fatal error and the ledger still
\* lists both
C34_Witness ==
    /\ pc = "fatal"
    /\ lastError = Err("LedgerWrite")
    /\ Len(discussions) = 2
    /\ \E w \in written : w.position = 2
    /\ ledgerFile = ValidLedger(discussions)

\* C35: whenever the undo record is armed by this run for a discussion and no
\* write of that discussion's fix is pending, the fix of that discussion was
\* written to the target file and the discussion is in the resolved set; no
\* backup stays armed for a change that was not applied.
C35_ArmedOnlyForAppliedFix ==
    (Armed /\ pc # "write") =>
        /\ \E w \in written :
               discussions[w.position].id = undoFile.discussionId
        /\ \E k \in 1..Len(resolvedDiscussionIds) :
               resolvedDiscussionIds[k] = undoFile.discussionId

\* C36: a performUndo that goes through changes the target file and the undo
\* record and nothing else on disk: discussions.json is as it was, so the
\* discussion of the undone change is not back on the ledger, and the other
\* files and the backup directory are as they were.
C36_UndoLeavesLedgerAlone ==
    [][(Armed /\ Consumed') =>
           /\ ledgerFile' = ledgerFile
           /\ undoFile.discussionId \notin IdsOf(ledgerFile'.entries)
           /\ \A f \in FileNames \ {undoFile.filePath} : files'[f] = files[f]
           /\ backupFiles' = backupFiles
           /\ backupMtimes' = backupMtimes]_vars

\* the fix of the second discussion was written to its file and undone: the
\* file has the content of the backup again, the record is consumed and the
\* discussion is not on the ledger
C36_Witness ==
    /\ Consumed
    /\ lastError = NoError
    /\ undoFile.filePath = OtherFile
    /\ undoFile.discussionId = DiscussionIds[2]
    /\ files[OtherFile] = backupFiles[undoFile.backupFilePath]
    /\ files[TargetFile] # Present(FixtureContent(2))
    /\ DiscussionIds[2] \notin IdsOf(ledgerFile.entries)

\* the positions of the run's discussions that were not applied and are
\* the discussion d
NotApplied(d) ==
    { k \in 1..Len(discussions) :
          discussions[k] = d /\ outcome[k] # "Applied" }

\* the positions of the persisted ledger that hold the discussion d
OnLedger(d) ==
    { k \in 1..Len(ledgerFile.entries) : ledgerFile.entries[k] = d }

\* C37: a discussion leaves the persisted ledger only if that same discussion
\* was applied in the run: once the ledger has been updated, every discussion
\* of the run that was not applied is still an entry of it, as many times as
\* it was loaded and not applied, two entries with one id included.
C37_OnlyAppliedDiscussionsLeaveLedger ==
    ledgerWrites > 0 =>
        \A k \in 1..Len(discussions) :
            outcome[k] # "Applied" =>
                Cardinality(OnLedger(discussions[k]))
                    >= Cardinality(NotApplied(discussions[k]))

(***************************************************************************)
(* The web UI (AICodeResolverUI).  The fields of the object are the        *)
(* variables of the same names, idx being currentDiscussionIndex + 1.  The *)
(* page is browser: the view shown, whether the action buttons are hidden  *)
(* by the loading state or disabled, and what the event loop still owes    *)
(* the object: advance timers, /api/suggest requests (counted by the       *)
(* discussion they were sent for) and the /api/apply-fix request.  For     *)
(* each discussion browser also counts the displays of its suggestion and  *)
(* the decisions recorded for it, and keeps the discussions a click        *)
(* decided before any display of their suggestion.  The click on Start and *)
(* the answer of /api/discussions are one step.                            *)
(***************************************************************************)
\* the suggestion the backend gets for every request
ServedFix == <<"F">>

Bump(counts, k) == [counts EXCEPT ![k] = @ + 1]

\* processCurrentDiscussion, up to its await: the loading state hides the
\* action buttons and the suggestion is requested
processCurrentDiscussion(page, index) ==
    [page EXCEPT !.loading = TRUE, !.suggesting = Bump(@, index)]

\* the accept and reject buttons can be clicked
Clickable ==
    /\ browser.view = "discussion"
    /\ ~browser.loading
    /\ ~browser.disabled

\* the page after a click on discussions[idx]
Clicked(page) ==
    IF page.displayed[idx] = 0
    THEN [page EXCEPT !.unseen = @ \cup {idx}]
    ELSE page

\* moveToNextDiscussion, and finishProcessing / showSummary after the last
moveToNextDiscussion(page, applied, skipped) ==
    IF idx < Len(discussions)
    THEN /\ idx' = idx + 1
         /\ browser' = [page EXCEPT !.disabled = FALSE, !.timers = @ + 1]
         /\ UNCHANGED summary
    ELSE /\ idx' = idx
         /\ browser' = [page EXCEPT !.disabled = FALSE, !.view = "summary"]
         /\ summary' = [shown |-> TRUE, processed |-> processedCount,
                        applied |-> applied, skipped |-> skipped]

\* handleReject
handleReject(page) ==
    /\ skippedCount' = skippedCount + 1
    /\ moveToNextDiscussion([page EXCEPT !.decided = Bump(@, idx)],
                            appliedCount, skippedCount + 1)
    /\ UNCHANGED <<appliedCount, resolvedDiscussionIds, ledgerFile, files,
                   written, discussions, processedCount>>

UIUnchanged ==
    UNCHANGED <<pc, outcome, codeContext, suggestedFix, fileContent,
                backupFiles, backupMtimes, undoFile, ledgerWrites>>

InitUI ==
    /\ pc = "load"
    /\ discussions = << >>
    /\ idx = 1
    /\ codeContext = NoContext
    /\ suggestedFix = << >>
    /\ fileContent = << >>
    /\ processedCount = 0
    /\ appliedCount = 0
    /\ skippedCount = 0
    /\ resolvedDiscussionIds = << >>
    /\ outcome = << >>
    /\ lastError = NoError
    /\ written = {}
    /\ ledgerWrites = 0
    /\ summary = NoSummary
    /\ browser = NoPage
    /\ backupFiles = << >>
    /\ backupMtimes = << >>
    /\ undoFile = NoUndo
    /\ ledgerFile \in { InvalidLedger } \cup
           { ValidLedger(l) : l \in UNION { LedgersOfLen(n, SingleLines) :
                                              n \in 0..MaxDiscussions } }
    /\ files = [f \in FileNames |->
                   IF f = TargetFile THEN Present(FixtureContent(MaxLine))
                   ELSE Present(<<"O">>)]

\* startReviewProcess: the discussions are loaded and the first one is
\* processed; with no discussion the welcome screen stays
StartReviewProcess ==
    /\ browser.view = "welcome"
    /\ ledgerFile.valid
    /\ IF Len(ledgerFile.entries) = 0
       THEN UNCHANGED <<discussions, processedCount, idx, browser>>
       ELSE /\ discussions' = ledgerFile.entries
            /\ processedCount' = Len(ledgerFile.entries)
            /\ idx' = 1
            /\ browser' = processCurrentDiscussion(
                   [browser EXCEPT
                       !.view = "discussion",
                       !.suggesting = [k \in 1..Len(ledgerFile.entries) |-> 0],
                       !.displayed = [k \in 1..Len(ledgerFile.entries) |-> 0],
                       !.decided = [k \in 1..Len(ledgerFile.entries) |-> 0]],
                   1)
    /\ appliedCount' = 0
    /\ skippedCount' = 0
    /\ resolvedDiscussionIds' = << >>
    /\ lastError' = NoError
    /\ UNCHANGED <<ledgerFile, files, written, summary>>
    /\ UIUnchanged

\* startReviewProcess: loadDiscussions throws
StartReviewProcessFails ==
    /\ browser.view = "welcome"
    /\ ~ledgerFile.valid
    /\ lastError' = Err("LoadDiscussions")
    /\ UNCHANGED <<ledgerFile, files, written, summary, discussions,
                   processedCount, idx, browser, appliedCount, skippedCount,
                   resolvedDiscussionIds>>
    /\ UIUnchanged

\* the callback of an advance timer: processCurrentDiscussion
TimerFires ==
    /\ browser.timers > 0
    /\ browser' = processCurrentDiscussion(
                      [browser EXCEPT !.timers = @ - 1], idx)
    /\ lastError' = NoError
    /\ UNCHANGED <<ledgerFile, files, written, summary, discussions,
                   processedCount, idx, appliedCount, skippedCount,
                   resolvedDiscussionIds>>
    /\ UIUnchanged

\* processCurrentDiscussion after its await: the suggestion requested for
\* discussion k is displayed and the action buttons are shown
SuggestionDisplayed ==
    /\ \E k \in 1..Len(discussions) :
           /\ browser.suggesting[k] > 0
           /\ browser' = [browser EXCEPT !.suggesting[k] = @ - 1,
                                         !.loading = FALSE,
                                         !.displayed = Bump(@, k)]
    /\ lastError' = NoError
    /\ UNCHANGED <<ledgerFile, files, written, summary, discussions,
                   processedCount, idx, appliedCount, skippedCount,
                   resolvedDiscussionIds>>
    /\ UIUnchanged

\* processCurrentDiscussion after its await, getAISuggestion throwing: the
\* catch block skips the current discussion
SuggestionFails ==
    /\ \E k \in 1..Len(discussions) :
           /\ browser.suggesting[k] > 0
           /\ handleReject([browser EXCEPT !.suggesting[k] = @ - 1,
                                           !.loading = FALSE])
    /\ lastError' = Err("Suggest")
    /\ UIUnchanged

\* a click on the reject button
ClickReject ==
    /\ Clickable
    /\ handleReject(Clicked(browser))
    /\ lastError' = NoError
    /\ UIUnchanged

\* a click on the accept button: handleAccept up to its await
ClickAccept ==
    /\ Clickable
    /\ browser' = [Clicked(browser) EXCEPT !.disabled = TRUE,
                                           !.applying = idx]
    /\ lastError' = NoError
    /\ UNCHANGED <<ledgerFile, files, written, summary, discussions,
                   processedCount, idx, appliedCount, skippedCount,
                   resolvedDiscussionIds>>
    /\ UIUnchanged

\* what /api/apply-fix does for a discussion before it answers
ServeApplyFix(position, discussion) ==
    /\ files' = [files EXCEPT ![TargetFile] =
           Present(applyFix(files[TargetFile].content, ServedFix,
                            FixLineRange(discussion.lines)[1] - 1,
                            FixLineRange(discussion.lines)[2] - 1))]
    /\ written' = written \cup
           { [position |-> position, file |-> TargetFile,
              before |-> files[TargetFile].content, fix |-> ServedFix] }
    /\ ledgerFile' = ValidLedger(SelectSeq(ledgerFile.entries,
                                           LAMBDA d : d.id # discussion.id))

\* handleAccept after its await: the fix was applied by the backend
FixApplied ==
    /\ browser.applying > 0
    /\ ServeApplyFix(browser.applying, discussions[browser.applying])
    /\ appliedCount' = appliedCount + 1
    /\ resolvedDiscussionIds' =
           Append(resolvedDiscussionIds, discussions[browser.applying].id)
    /\ moveToNextDiscussion(
           [browser EXCEPT !.applying = 0,
                           !.decided = Bump(@, browser.applying)],
           appliedCount + 1, skippedCount)
    /\ lastError' = NoError
    /\ UNCHANGED <<skippedCount, discussions, processedCount>>
    /\ UIUnchanged

\* handleAccept after its await, applyFix throwing: the buttons are enabled
\* again for another try
FixNotApplied ==
    /\ browser.applying > 0
    /\ browser' = [browser EXCEPT !.applying = 0, !.disabled = FALSE]
    /\ lastError' = Err("ApplyFix")
    /\ UNCHANGED <<ledgerFile, files, written, summary, discussions,
                   processedCount, idx, appliedCount, skippedCount,
                   resolvedDiscussionIds>>
    /\ UIUnchanged

NextUI ==
    \/ StartReviewProcess
    \/ StartReviewProcessFails
    \/ TimerFires
    \/ SuggestionDisplayed
    \/ SuggestionFails
    \/ ClickReject
    \/ ClickAccept
    \/ FixApplied
    \/ FixNotApplied

\* the web UI specification
SpecUI == InitUI /\ [][NextUI]_vars

(***************************************************************************)
(* C38.                                                                    *)
(***************************************************************************)
\* C38: in the web UI, whatever the order of clicks, suggestion responses
\* and advance timers, every decision a click makes is about a discussion
\* whose suggestion has been displayed, no discussion gets more than one
\* decision, the discussions before the current one have their decision and
\* those after it have none, and appliedCount + skippedCount is at most the
\* number of discussions loaded.
C38_OneDecisionPerDisplayedDiscussion ==
    /\ browser.unseen = {}
    /\ appliedCount + skippedCount <= Len(discussions)
    /\ \A k \in 1..Len(discussions) :
           /\ browser.decided[k] <= 1
           /\ k < idx => browser.decided[k] = 1
           /\ k > idx => browser.decided[k] = 0

(***************************************************************************)
(* The basic resolver (resolveWithAI.js, AICodeResolver): no counters, no  *)
(* backup, no ledger update; the file is always app.js; any error ends the *)
(* run.  startLine and endLine are the first two elements of the lines     *)
(* array, endLine being undefined for an array of one element.             *)
(***************************************************************************)
\* the values a JavaScript number-valued expression takes here
Undefined == [kind |-> "undefined", n |-> 0]

NaN == [kind |-> "NaN", n |-> 0]

Number(n) == [kind |-> "number", n |-> n]

\* const [startLine, endLine] = discussion.lines
ElementAt(lines, k) ==
    IF k <= Len(lines) THEN Number(lines[k]) ELSE Undefined

\* Math.min(n, v)
MathMin(n, v) ==
    IF v.kind = "number" THEN Number(MinOf(n, v.n)) ELSE NaN

\* ToIntegerOrInfinity of an index argument: undefined and NaN give 0
ToInteger(v) == IF v.kind = "number" THEN v.n ELSE 0

\* Array.prototype.slice(start, end): an undefined end is the length
jsSlice(arr, start, end) ==
    Slice(arr, ToInteger(start),
          IF end.kind = "undefined" THEN Len(arr) ELSE ToInteger(end))

\* AICodeResolver.extractCodeLines
basicExtractCodeLines(content, startLine, endLine) ==
    Join(jsSlice(Split(content), Number(MaxOf(0, startLine.n - 1)),
                 MathMin(Len(Split(content)), endLine)))

\* AICodeResolver.applyFix
basicApplyFix(originalContent, fix, startIndex, endIndex) ==
    Join(jsSlice(Split(originalContent), Number(0), startIndex)
         \o Split(fix)
         \o jsSlice(Split(originalContent), endIndex, Undefined))

InitBasic ==
    /\ FreshResolver
    /\ ledgerFile \in { InvalidLedger } \cup
           { ValidLedger(l) : l \in UNION { LedgersOfLen(n, AllLineArrays) :
                                              n \in 0..MaxDiscussions } }
    /\ \E n \in 1..MaxFileLines :
           files = [f \in FileNames |->
                       IF f = OtherFile THEN Present(FixtureContent(n))
                       ELSE Present(<<"O">>)]

BasicUnchanged ==
    UNCHANGED <<ledgerFile, backupFiles, backupMtimes, undoFile,
                processedCount, appliedCount, skippedCount,
                resolvedDiscussionIds, written, ledgerWrites, summary,
                browser>>

\* run(): parseDiscussions returns and the loop starts
BasicParseDiscussions ==
    /\ pc = "load"
    /\ ledgerFile.valid
    /\ discussions' = ledgerFile.entries
    /\ outcome' = [k \in 1..Len(ledgerFile.entries) |-> "Pending"]
    /\ idx' = 1
    /\ pc' = IF Len(ledgerFile.entries) = 0 THEN "done" ELSE "ctx"
    /\ lastError' = NoError
    /\ UNCHANGED <<files, codeContext, suggestedFix, fileContent>>
    /\ BasicUnchanged

\* run(): parseDiscussions throws; the catch of run() exits the process
BasicParseDiscussionsFails ==
    /\ pc = "load"
    /\ ~ledgerFile.valid
    /\ pc' = "fatal"
    /\ lastError' = Err("ParseDiscussions")
    /\ UNCHANGED <<files, discussions, outcome, idx, codeContext,
                   suggestedFix, fileContent>>
    /\ BasicUnchanged

\* processDiscussion: app.js is read and the lines to show are extracted
BasicExtract ==
    /\ pc = "ctx"
    /\ fileContent' = files[OtherFile].content
    /\ codeContext' =
           [source |-> "local-file",
            codeContext |-> basicExtractCodeLines(files[OtherFile].content,
                                ElementAt(Current.lines, 1),
                                ElementAt(Current.lines, 2)),
            lineNumber |-> Current.lines[1]]
    /\ pc' = "ai"
    /\ lastError' = NoError
    /\ UNCHANGED <<files, discussions, outcome, idx, suggestedFix>>
    /\ BasicUnchanged

\* processDiscussion: callOpenAI returns the suggestion
BasicCallOpenAI ==
    /\ pc = "ai"
    /\ \E text \in Suggestions : suggestedFix' = text
    /\ pc' = "approval"
    /\ lastError' = NoError
    /\ UNCHANGED <<files, discussions, outcome, idx, codeContext,
                   fileContent>>
    /\ BasicUnchanged

\* processDiscussion: callOpenAI throws; the catch of run() exits
BasicCallOpenAIFails ==
    /\ pc = "ai"
    /\ pc' = "fatal"
    /\ lastError' = Err("OpenAI")
    /\ UNCHANGED <<files, discussions, outcome, idx, codeContext,
                   suggestedFix, fileContent>>
    /\ BasicUnchanged

\* the loop of run() goes on to the next discussion
BasicFinish(result) ==
    /\ outcome' = [outcome EXCEPT ![idx] = result]
    /\ idx' = idx + 1
    /\ pc' = IF idx < Len(discussions) THEN "ctx" ELSE "done"
    /\ lastError' = NoError
    /\ codeContext' = NoContext
    /\ suggestedFix' = << >>
    /\ fileContent' = << >>
    /\ UNCHANGED discussions
    /\ BasicUnchanged

\* processDiscussion: the user rejects
BasicReject ==
    /\ pc = "approval"
    /\ BasicFinish("Skipped")
    /\ UNCHANGED files

\* processDiscussion: the user accepts; applyFix and writeFile
BasicAccept ==
    /\ pc = "approval"
    /\ files' = [files EXCEPT ![OtherFile] =
           Present(basicApplyFix(fileContent, suggestedFix,
                                 Number(Current.lines[1] - 1),
                                 ElementAt(Current.lines, 2)))]
    /\ BasicFinish("Applied")

NextBasic ==
    \/ BasicParseDiscussions
    \/ BasicParseDiscussionsFails
    \/ BasicExtract
    \/ BasicCallOpenAI
    \/ BasicCallOpenAIFails
    \/ BasicReject
    \/ BasicAccept

\* the basic resolver specification
SpecBasic == InitBasic /\ [][NextBasic]_vars

(***************************************************************************)
(* C39.                                                                    *)
(***************************************************************************)
\* the lines of a text that a lines array declares: from its smallest to
\* its largest line number, as far as the text goes
DeclaredFirst(lines) ==
    IF Len(lines) = 1 THEN lines[1] ELSE MinOf(lines[1], lines[2])

DeclaredLast(lines) ==
    IF Len(lines) = 1 THEN lines[1] ELSE MaxOf(lines[1], lines[2])

\* C39: in the basic resolver, when a suggestion is accepted for a lines
\* array of one or two elements, the lines that were shown for approval are
\* the declared lines of app.js, and the written file is app.js with those
\* lines replaced by the suggestion: the lines before and after the declared
\* range are as they were.
C39_ShownLinesAreTheReplacedLines ==
    [][(pc = "approval" /\ outcome'[idx] = "Applied") =>
           /\ codeContext.codeContext =
                  Join(Slice(Split(files[OtherFile].content),
                             DeclaredFirst(Current.lines) - 1,
                             DeclaredLast(Current.lines)))
           /\ files'[OtherFile].content =
                  Join(Slice(Split(files[OtherFile].content), 0,
                             DeclaredFirst(Current.lines) - 1)
                       \o Split(suggestedFix)
                       \o SliceFrom(Split(files[OtherFile].content),
                                    DeclaredLast(Current.lines)))]_vars

====
